---- MODULE Spec2Model ----
(***************************************************************************)
(* A model of AutomatedPERTools (pauli_lindblad_per): circuit-layer        *)
(* partitioning, measurement-basis selection, the NoiseModel sampling       *)
(* engine, PER instance assembly and benchmark-instance construction.      *)
(*                                                                         *)
(* Each component is a state machine of its own over the shared variables: *)
(*   SpecPartition  PERCircuit._circuit_to_benchmark_layers / CircuitLayer *)
(*   SpecBases      ProcessorSpec._meas_bases                              *)
(*   SpecNoise      NoiseModel.init_scaling / _init_tuning / sample        *)
(*   SpecPER        PERRun._generate / PERInstance / CircuitLayer.sample   *)
(*   SpecBench      BenchmarkInstance._instance                            *)
(* A component that a specification does not run stays in its idle state.  *)
(***************************************************************************)
EXTENDS Integers, Sequences, FiniteSets, TLC

VARIABLES
    \* ---- PERCircuit._circuit_to_benchmark_layers
    qc,            \* the input circuit: a sequence of instructions
    inst_list,     \* the instructions not yet placed
    todo,          \* what is left of inst_list.copy() in the running sweep
    circ,          \* the sweep's circuit
    layer_qubits,  \* the sweep's blocking set
    newlayer,      \* <<the CircuitLayer built at the end of the last sweep>>
    layers,        \* the CircuitLayers kept
    part_pc,
    \* ---- ProcessorSpec._meas_bases
    edges,         \* the connectivity graph: a set of two-element sets
    nverts,        \* self._n
    vertex,        \* the loop variable of `for vertex in range(n)`
    bases,         \* the 9 label lists, indexed by vertex (0-based -> +1)
    meas_bases,    \* the returned labels (reversed), or <<>> before return
    mb_pc,
    \* ---- NoiseModel objects, PERInstance, BenchmarkInstance
    models,        \* id -> NoiseModel object (coeffs, probs, overhead)
    call,          \* the last NoiseModel call and its outcome
    ovh_log,       \* strength numerator -> overhead derived by init_scaling
    per,           \* the PERCircuit and the PERInstance under construction
    bench,         \* the BenchmarkInstance under construction
    \* ---- the experiments and the tomography analysis
    experiment,    \* instances, executor calls and results of an experiment
    learning,      \* the data and fits of the tomography analysis
    \* ---- ProcessorSpec._model_terms
    processorspec  \* the edges left to visit and the model terms collected

partVars  == <<qc, inst_list, todo, circ, layer_qubits, newlayer, layers, part_pc>>
basesVars == <<edges, nverts, vertex, bases, meas_bases, mb_pc>>
nmVars    == <<models, call, ovh_log>>
vars == <<qc, inst_list, todo, circ, layer_qubits, newlayer, layers, part_pc,
          edges, nverts, vertex, bases, meas_bases, mb_pc,
          models, call, ovh_log, per, bench, experiment, learning,
          processorspec>>

\* ------------------------------------------------------------------ bounds
NumQubits == 4      \* qubits of the circuits that are partitioned
MaxLen == 3         \* instructions of an input circuit
MaxVerts == 4       \* vertices of a connectivity graph
NumPauliQubits == 2 \* qubits of the Pauli operators
MaxTerms == 2       \* terms of a NoiseModel
MaxCoeff == 2       \* learned rates: -1 .. MaxCoeff, times StrengthDen units
StrengthDen == 2    \* noise strengths are multiples of 1/StrengthDen
MaxStrengthNum == 4 \* noise strengths: 0 .. MaxStrengthNum/StrengthDen
MaxLayers == 3      \* layers of the PERCircuit
MaxExpec == 2       \* raw expectation values: -1 .. 1 in steps of 1/MaxExpec
MaxDepth == 2       \* repetitions of the noisy layer in a benchmark circuit
MaxGroups == 2      \* layer profiles / PERCircuits of an experiment
MaxPoints == 2      \* depths / noise strengths passed to generate
MaxSamples == 2     \* samples passed to generate
MaxRuns == 2        \* calls of generate, and of run, on one experiment
MaxExpectations == 3 \* expectations asked of a PERExperiment
FitDen == 2         \* fit parameters and expectations are multiples of 1/FitDen

\* ------------------------------------------------------- generic helpers
Range(s) == {s[i] : i \in DOMAIN s}

RECURSIVE RemoveFirst(_, _)
\* list.remove(x): drops the first element equal to x
RemoveFirst(s, x) ==
    IF s = <<>> THEN <<>>
    ELSE IF Head(s) = x THEN Tail(s)
         ELSE <<Head(s)>> \o RemoveFirst(Tail(s), x)

\* ============================================================ Instruction
Qubits == 0 .. (NumQubits - 1)

Inst(nm, sup) == [name |-> nm, support |-> sup]

\* The instructions an input circuit is drawn from: one-qubit gates on
\* every qubit, two-qubit gates along the chain and one with reversed
\* operands, a three-qubit gate and a measurement.
InstPool ==
    {Inst("h", <<q>>) : q \in Qubits}
    \cup {Inst("cx", <<q, q + 1>>) : q \in 0 .. (NumQubits - 2)}
    \cup {Inst("cx", <<1, 0>>), Inst("ccx", <<0, 1, 2>>), Inst("measure", <<0>>)}

support(inst) == Range(inst.support)
weight(inst) == Len(inst.support)
ismeas(inst) == inst.name = "measure"

\* =========================================================== CircuitLayer
RECURSIVE separate_gates(_, _)
separate_gates(layer, w) ==
    IF layer = <<>> THEN <<>>
    ELSE IF weight(Head(layer)) = w
         THEN <<Head(layer)>> \o separate_gates(Tail(layer), w)
         ELSE separate_gates(Tail(layer), w)

CircuitLayer(layer) ==
    [layer |-> layer,
     single_layer |-> separate_gates(layer, 1),
     cliff_layer |-> separate_gates(layer, 2)]

\* ====================================== PERCircuit._circuit_to_benchmark_layers
RECURSIVE NonMeas(_)
NonMeas(s) ==
    IF s = <<>> THEN <<>>
    ELSE IF ismeas(Head(s)) THEN NonMeas(Tail(s))
         ELSE <<Head(s)>> \o NonMeas(Tail(s))

JoinsNothing(lq, inst) == FALSE

\* line 56: the instruction is placed when it misses the blocking set
Joins(lq, inst) == lq \cap support(inst) = {}

\* lines 60-61: the blocking set after the instruction has been looked at
NoBlocking(lq, inst) == lq

BlockingWhenPlaced(lq, inst) ==
    IF weight(inst) = 2 /\ Joins(lq, inst) THEN lq \cup support(inst) ELSE lq

Blocking(lq, inst) == IF weight(inst) = 2 THEN lq \cup support(inst) ELSE lq

\* The state after PERCircuit.__init__ has stored the circuit (lines 13-14);
\* the other components are idle.
PartInit ==
    /\ processorspec = [pc |-> "idle"]
    /\ experiment = [pc |-> "idle"] /\ learning = [pc |-> "idle"]
    /\ qc \in UNION {[1 .. k -> InstPool] : k \in 0 .. MaxLen}
    /\ inst_list = <<>>
    /\ todo = <<>>
    /\ circ = <<>>
    /\ layer_qubits = {}
    /\ newlayer = <<>>
    /\ layers = <<>>
    /\ part_pc = "start"
    /\ edges = {} /\ nverts = 0 /\ vertex = 0 /\ bases = <<>>
    /\ meas_bases = <<>> /\ mb_pc = "idle"
    /\ models = <<>> /\ call = [op |-> "none"] /\ ovh_log = <<>>
    /\ per = [pc |-> "idle"]
    /\ bench = [pc |-> "idle"]

notPartVars == <<basesVars, nmVars, per, bench, experiment, learning,
    processorspec>>

\* lines 42-44
PartBegin ==
    /\ part_pc = "start"
    /\ inst_list' = NonMeas(qc)
    /\ layers' = <<>>
    /\ part_pc' = "while"
    /\ UNCHANGED <<qc, todo, circ, layer_qubits, newlayer>>
    /\ UNCHANGED notPartVars

\* lines 47-52: a sweep starts
SweepStart ==
    /\ part_pc = "while"
    /\ inst_list # <<>>
    /\ circ' = <<>>
    /\ layer_qubits' = {}
    /\ todo' = inst_list
    /\ part_pc' = "for"
    /\ UNCHANGED <<qc, inst_list, newlayer, layers>>
    /\ UNCHANGED notPartVars

\* lines 52-61: one iteration of the for loop
SweepStep ==
    /\ part_pc = "for"
    /\ todo # <<>>
    /\ LET inst == Head(todo) IN
         /\ IF Joins(layer_qubits, inst)
            THEN /\ circ' = Append(circ, inst)
                 /\ inst_list' = RemoveFirst(inst_list, inst)
            ELSE UNCHANGED <<circ, inst_list>>
         /\ layer_qubits' = Blocking(layer_qubits, inst)
    /\ todo' = Tail(todo)
    /\ UNCHANGED <<qc, newlayer, layers, part_pc>>
    /\ UNCHANGED notPartVars

\* lines 63-65: the sweep's layer is built and kept when it has a Clifford part
SweepEnd ==
    /\ part_pc = "for"
    /\ todo = <<>>
    /\ newlayer' = <<CircuitLayer(circ)>>
    /\ layers' = IF newlayer'[1].cliff_layer # <<>>
                 THEN Append(layers, CircuitLayer(circ))
                 ELSE layers
    /\ part_pc' = "while"
    /\ UNCHANGED <<qc, inst_list, todo, circ, layer_qubits>>
    /\ UNCHANGED notPartVars

\* line 67
PartReturn ==
    /\ part_pc = "while"
    /\ inst_list = <<>>
    /\ part_pc' = "done"
    /\ UNCHANGED <<qc, inst_list, todo, circ, layer_qubits, newlayer, layers>>
    /\ UNCHANGED notPartVars

PartNext == PartBegin \/ SweepStart \/ SweepStep \/ SweepEnd \/ PartReturn

SpecPartition == PartInit /\ [][PartNext]_vars

\* The method runs to its end once called: each step of its loops is taken.
SpecPartitionFair == PartInit /\ [][PartNext]_vars /\ WF_vars(PartNext)

\* ============================================== ProcessorSpec._meas_bases
NUM_BASES == 9

\* str comparison of one-character labels: "I" < "X" < "Y" < "Z"
Ord(c) == CASE c = "I" -> 0 [] c = "X" -> 1 [] c = "Y" -> 2 [] c = "Z" -> 3

RECURSIVE LexLess(_, _)
\* list < list, as Python compares lists of characters
LexLess(a, b) ==
    IF a = <<>> THEN b # <<>>
    ELSE IF b = <<>> THEN FALSE
    ELSE IF Head(a) # Head(b) THEN Ord(Head(a)) < Ord(Head(b))
    ELSE LexLess(Tail(a), Tail(b))

\* sorted(zip([p[pred] for p in bases], bases)) and the second column of it:
\* the tuples are ordered by the predecessor's label, then by the whole list;
\* sorted() is stable.
SortedByPred(bs, pred) ==
    LET key(i) == <<bs[i][pred + 1]>> \o bs[i]
        rank(i) == Cardinality({j \in DOMAIN bs : LexLess(key(j), key(i))})
                   + Cardinality({j \in DOMAIN bs : j < i /\ key(j) = key(i)})
                   + 1
    IN  [r \in DOMAIN bs |-> bs[CHOOSE i \in DOMAIN bs : rank(i) = r]]

\* cycle("XYZ") consumed once per basis
CycleXYZ(i) == <<"X", "Y", "Z">>[((i - 1) % 3) + 1]

\* bases[i][vertex] = labels[i] for every i
Assign(bs, v, labels) ==
    [i \in DOMAIN bs |-> [bs[i] EXCEPT ![v + 1] = labels[i]]]

\* the table copied from Fig. S3 in van den Berg (lines 28-32)
orderings ==
    [k \in {<<"X","X","X","Y","Y","Y","Z","Z","Z">>,
            <<"X","X","X","Y","Y","Z","Z","Z","Y">>,
            <<"X","X","Y","Y","Y","Z","Z","Z","X">>,
            <<"X","X","Z","Y","Y","Z","X","Y","Z">>,
            <<"X","Y","Z","X","Y","Z","X","Y","Z">>} |->
        CASE k = <<"X","X","Z","Y","Y","Z","X","Y","Z">>
                 -> <<"X","Y","Z","X","Z","Y","Z","Y","X">>
          [] k = <<"X","Y","Z","X","Y","Z","X","Y","Z">>
                 -> <<"X","Y","Z","Z","X","Y","Y","Z","X">>
          [] OTHER -> <<"X","Y","Z","X","Y","Z","X","Y","Z">>]

\* itertools.permutations("XYZ"), in the order it yields them
Perms == << <<"X","Y","Z">>, <<"X","Z","Y">>, <<"Y","X","Z">>,
            <<"Y","Z","X">>, <<"Z","X","Y">>, <<"Z","Y","X">> >>

\* "XYZ"[perm.index(p)] for every p of substr (line 57); p is in perm
Relabel(perm, substr) ==
    [i \in DOMAIN substr |->
        <<"X", "Y", "Z">>[CHOOSE k \in 1 .. 3 : perm[k] = substr[i]]]

RECURSIVE MatchFrom(_, _)
\* lines 56-62: the loop from the k-th permutation on; substr is the value
\* the variable holds when the k-th iteration starts.  The result is the
\* table's target sequence, or <<>> when the loop ends without a break.
MatchFrom(substr, k) ==
    IF k > Len(Perms) THEN <<>>
    ELSE LET permuted == Relabel(Perms[k], substr) IN
         IF permuted \in DOMAIN orderings THEN orderings[permuted]
         ELSE MatchFrom(permuted, k + 1)

RECURSIVE ComparedOriginal(_, _)
ComparedOriginal(substr, k) ==
    IF k > Len(Perms) THEN <<>>
    ELSE LET permuted == Relabel(Perms[k], substr) IN
         IF permuted \in DOMAIN orderings THEN <<permuted>>
         ELSE <<permuted>> \o ComparedOriginal(substr, k + 1)

RECURSIVE Compared(_, _)
\* lines 56-58: the strings that the loop looks up in the table from the
\* k-th permutation on, in order, up to the one that is found; line 57
\* assigns the relabeled string to substr itself
Compared(substr, k) ==
    IF k > Len(Perms) THEN <<>>
    ELSE LET permuted == Relabel(Perms[k], substr) IN
         IF permuted \in DOMAIN orderings THEN <<permuted>>
         ELSE <<permuted>> \o Compared(permuted, k + 1)

Predecessors(v) == {c \in 0 .. (nverts - 1) : {c, v} \in edges /\ c < v}

\* The state when _meas_bases starts (lines 20-24): any graph over the
\* addressed qubits.
BasesInit ==
    /\ processorspec = [pc |-> "idle"]
    /\ experiment = [pc |-> "idle"] /\ learning = [pc |-> "idle"]
    /\ nverts \in 1 .. MaxVerts
    /\ edges \in SUBSET {{u, v} : u, v \in 0 .. (nverts - 1)}
    /\ \A e \in edges : Cardinality(e) = 2
    /\ vertex = 0
    /\ bases = [i \in 1 .. NUM_BASES |-> [q \in 1 .. nverts |-> "I"]]
    /\ meas_bases = <<>>
    /\ mb_pc = "loop"
    /\ qc = <<>> /\ inst_list = <<>> /\ todo = <<>> /\ circ = <<>>
    /\ layer_qubits = {} /\ newlayer = <<>> /\ layers = <<>> /\ part_pc = "idle"
    /\ models = <<>> /\ call = [op |-> "none"] /\ ovh_log = <<>>
    /\ per = [pc |-> "idle"]
    /\ bench = [pc |-> "idle"]

notBasesVars == <<partVars, nmVars, per, bench, experiment, learning,
    processorspec>>

\* lines 37-40
VertexNoPred ==
    /\ mb_pc = "loop" /\ vertex < nverts
    /\ Predecessors(vertex) = {}
    /\ bases' = Assign(bases, vertex, [i \in 1 .. NUM_BASES |-> CycleXYZ(i)])
    /\ vertex' = vertex + 1
    /\ UNCHANGED <<edges, nverts, meas_bases, mb_pc>>
    /\ UNCHANGED notBasesVars

\* lines 42-48
VertexOnePred ==
    /\ mb_pc = "loop" /\ vertex < nverts
    /\ \E pred \in Predecessors(vertex) :
         /\ Predecessors(vertex) = {pred}
         /\ bases' = Assign(SortedByPred(bases, pred), vertex,
                            [i \in 1 .. NUM_BASES |-> CycleXYZ(i)])
    /\ vertex' = vertex + 1
    /\ UNCHANGED <<edges, nverts, meas_bases, mb_pc>>
    /\ UNCHANGED notBasesVars

\* lines 49-62; neighbors() lists the predecessors in either order.
\* perm.index(p) raises ValueError for a label "I" of the second predecessor.
VertexTwoPred ==
    /\ mb_pc = "loop" /\ vertex < nverts
    /\ \E pred0, pred1 \in Predecessors(vertex) :
         /\ pred0 # pred1
         /\ Predecessors(vertex) = {pred0, pred1}
         /\ LET sorted == SortedByPred(bases, pred0)
                substr == [i \in 1 .. NUM_BASES |-> sorted[i][pred1 + 1]]
            IN  IF "I" \in Range(substr)
                THEN /\ mb_pc' = "ValueError"
                     /\ bases' = sorted
                     /\ UNCHANGED vertex
                ELSE /\ LET current == MatchFrom(substr, 1) IN
                          bases' = IF current = <<>> THEN sorted
                                   ELSE Assign(sorted, vertex, current)
                     /\ vertex' = vertex + 1
                     /\ UNCHANGED mb_pc
    /\ UNCHANGED <<edges, nverts, meas_bases>>
    /\ UNCHANGED notBasesVars

\* lines 63-64
VertexRaise ==
    /\ mb_pc = "loop" /\ vertex < nverts
    /\ Cardinality(Predecessors(vertex)) >= 3
    /\ mb_pc' = "Exception"
    /\ UNCHANGED <<edges, nverts, vertex, bases, meas_bases>>
    /\ UNCHANGED notBasesVars

\* "".join(b)[::-1]
Reverse(b) == [i \in DOMAIN b |-> b[Len(b) + 1 - i]]

\* lines 66-69
BasesReturn ==
    /\ mb_pc = "loop" /\ vertex = nverts
    /\ meas_bases' = [i \in DOMAIN bases |-> Reverse(bases[i])]
    /\ mb_pc' = "done"
    /\ UNCHANGED <<edges, nverts, vertex, bases>>
    /\ UNCHANGED notBasesVars

BasesNext ==
    VertexNoPred \/ VertexOnePred \/ VertexTwoPred \/ VertexRaise \/ BasesReturn

SpecBases == BasesInit /\ [][BasesNext]_vars

\* QiskitPauli.__getitem__: qubit q of a label is its character n-1-q
PauliAt(label, q) == label[Len(label) - q]


\* ================================================================== Pauli
\* A Pauli operator is its label without phase: a tuple over I, X, Y, Z.
Labels == {"I", "X", "Y", "Z"}

PauliType == [1 .. NumPauliQubits -> Labels]

\* Pauli.ID(n)
ID(n) == [i \in 1 .. n |-> "I"]

\* the product of two one-qubit Paulis with the phase dropped
MulLabel(a, b) ==
    IF a = "I" THEN b
    ELSE IF b = "I" THEN a
    ELSE IF a = b THEN "I"
    ELSE CHOOSE c \in {"X", "Y", "Z"} : c # a /\ c # b

\* QiskitPauli.__mul__: compose, then drop the phase
Mul(p, q) == [i \in DOMAIN p |-> MulLabel(p[i], q[i])]

\* ============================================================= NoiseModel
\* Rates (generator coefficients) are integers counting units of ln(2)/2:
\* np.exp(2*x) of a rate x is then the integer 2^x, and a probability is an
\* exact fraction <<numerator, denominator>>.  A noise strength is the
\* fraction sNum / StrengthDen, and the learned rates are multiples of
\* StrengthDen so that strength*coeff is a whole number of units.
Abs(x) == IF x < 0 THEN -x ELSE x

RECURSIVE Pow2(_)
Pow2(n) == IF n <= 0 THEN 1 ELSE 2 * Pow2(n - 1)

\* np.exp(2*x) for a rate x >= 0
Exp2(x) == Pow2(x)

Strengths == 0 .. MaxStrengthNum

Rates == {StrengthDen * c : c \in (-1) .. MaxCoeff}

\* the targets a tuning call asks for
TuningRates == {0, StrengthDen}

\* the Pauli terms a model is learned over, in the order of the term list
ModelTermOrder ==
    LET term(a, b) == [i \in 1 .. NumPauliQubits |->
                          IF i = 1 THEN a ELSE IF i = 2 THEN b ELSE "I"]
    IN  <<term("I", "X"), term("Z", "I"), term("X", "Y"), term("Y", "Z")>>

\* line 31: strength*coeff
ScaleSum(sNum, coeff) == sNum + coeff

Scale(sNum, coeff) == (sNum * coeff) \div StrengthDen

\* dict(noise_params): a later pair replaces an earlier one with the same key
ToDict(pairs) ==
    [t \in {pairs[i][1] : i \in DOMAIN pairs} |->
        pairs[CHOOSE i \in DOMAIN pairs :
                 /\ pairs[i][1] = t
                 /\ \A j \in DOMAIN pairs : pairs[j][1] = t => j <= i][2]]

\* new_coeffs.get(pauli, 0)
Get(d, key, default) == IF key \in DOMAIN d THEN d[key] ELSE default

\* line 44: .5*(1-np.exp(-2*abs(phik-lambdak))), as the fraction
\* (2^d - 1) / 2^(d+1) with d = |phik - lambdak|
NewProbNoAbs(phik, lambdak) ==
    LET d == phik - lambdak IN <<Exp2(d) - 1, 2 * Exp2(d)>>

NewProb(phik, lambdak) ==
    LET d == Abs(phik - lambdak) IN <<Exp2(d) - 1, 2 * Exp2(d)>>

\* lines 45-48
SgnLeq(phik, lambdak) == IF phik <= lambdak THEN 1 ELSE 0

Sgn(phik, lambdak) == IF phik < lambdak THEN 1 ELSE 0

\* line 56: np.exp(2*(lambdak-phik))
OverheadFactorPhi(phik, lambdak) == Exp2(Abs(phik))

OverheadFactor(phik, lambdak) == Exp2(lambdak - phik)

\* lines 42-49
TuningProbs(coeffs, new_coeffs) ==
    [k \in DOMAIN coeffs |->
        LET pauli == coeffs[k][1]
            lambdak == coeffs[k][2]
            phik == Get(new_coeffs, pauli, 0)
        IN  <<pauli, NewProb(phik, lambdak), Sgn(phik, lambdak)>>]

RECURSIVE TuningOverhead(_, _, _)
\* lines 52-56, from the k-th term on; new_coeffs[pauli] exists for all terms
TuningOverhead(coeffs, new_coeffs, k) ==
    IF k > Len(coeffs) THEN 1
    ELSE LET lambdak == coeffs[k][2]
             phik == new_coeffs[coeffs[k][1]]
         IN  (IF phik < lambdak THEN OverheadFactor(phik, lambdak) ELSE 1)
             * TuningOverhead(coeffs, new_coeffs, k + 1)

\* line 54: new_coeffs[pauli] raises KeyError for a term without a target
RaisesKeyError(coeffs, new_coeffs) ==
    \E k \in DOMAIN coeffs : coeffs[k][1] \notin DOMAIN new_coeffs

\* NoiseModel._init_tuning on the object nm: the object afterwards.  probs and
\* overhead are assigned together at the end (lines 58-59); when line 54
\* raises, nothing is assigned.  `targets` is not a field of the code's
\* object: it remembers, per learned term, the target rate the stored
\* distribution was derived from; `scaled` remembers the strength when the
\* distribution was derived by init_scaling, and is -1 otherwise.
CoeffsOverwritten(nm, noise_params) ==
    LET new_coeffs == ToDict(noise_params) IN
    IF RaisesKeyError(nm.coeffs, new_coeffs) THEN nm
    ELSE [nm EXCEPT !.coeffs = noise_params,
                    !.probs = TuningProbs(nm.coeffs, new_coeffs),
                    !.overhead = TuningOverhead(nm.coeffs, new_coeffs, 1),
                    !.inited = TRUE,
                    !.scaled = -1,
                    !.targets = [k \in DOMAIN nm.coeffs |-> new_coeffs[nm.coeffs[k][1]]]]

\* _init_tuning with probs stored as soon as the first loop has run
TuningProbsStoredFirst(nm, noise_params) ==
    LET new_coeffs == ToDict(noise_params) IN
    IF RaisesKeyError(nm.coeffs, new_coeffs)
    THEN [nm EXCEPT !.probs = TuningProbs(nm.coeffs, new_coeffs)]
    ELSE [nm EXCEPT !.probs = TuningProbs(nm.coeffs, new_coeffs),
                    !.overhead = TuningOverhead(nm.coeffs, new_coeffs, 1),
                    !.inited = TRUE,
                    !.scaled = -1,
                    !.targets = [k \in DOMAIN nm.coeffs |-> new_coeffs[nm.coeffs[k][1]]]]

init_tuning(nm, noise_params) ==
    LET new_coeffs == ToDict(noise_params) IN
    IF RaisesKeyError(nm.coeffs, new_coeffs) THEN nm
    ELSE [nm EXCEPT !.probs = TuningProbs(nm.coeffs, new_coeffs),
                    !.overhead = TuningOverhead(nm.coeffs, new_coeffs, 1),
                    !.inited = TRUE,
                    !.scaled = -1,
                    !.targets = [k \in DOMAIN nm.coeffs |-> new_coeffs[nm.coeffs[k][1]]]]

\* NoiseModel.init_scaling (lines 28-32)
init_scaling(nm, sNum) ==
    [init_tuning(nm, [k \in DOMAIN nm.coeffs |->
                         <<nm.coeffs[k][1], Scale(sNum, nm.coeffs[k][2])>>])
        EXCEPT !.scaled = sNum]

\* line 68: random() < prob can hold iff prob > 0, and can always fail
CanFire(prob) == prob[1] > 0

RECURSIVE SampleOperator(_, _, _, _)
\* lines 64-70 from the k-th term on, for the set `fired` of the terms whose
\* draw succeeded
SampleOperator(probs, fired, k, operator) ==
    IF k > Len(probs) THEN operator
    ELSE SampleOperator(probs, fired, k + 1,
             IF k \in fired THEN Mul(operator, probs[k][1]) ELSE operator)

RECURSIVE SampleSign(_, _, _, _)
SampleSign(probs, fired, k, sgn_tot) ==
    IF k > Len(probs) THEN sgn_tot
    ELSE SampleSign(probs, fired, k + 1,
             IF k \in fired THEN (sgn_tot + probs[k][3]) % 2 ELSE sgn_tot)

\* the sets of terms that one call of sample() can fire
Firings(probs) == SUBSET {k \in DOMAIN probs : CanFire(probs[k][2])}

\* NoiseModel.__init__ (lines 24-26): coeffs = list(zip(model_terms, coefficients))
NoiseModel(model_terms, coefficients) ==
    [coeffs |-> [k \in DOMAIN model_terms |-> <<model_terms[k], coefficients[k]>>],
     probs |-> <<>>,
     overhead |-> 0,
     inited |-> FALSE,
     scaled |-> -1,
     targets |-> <<>>]

\* the lists of distinct model terms (the keys of a dict, layernoisedata.py:80)
TermLists == {SubSeq(ModelTermOrder, 1, n) : n \in 1 .. MaxTerms}

NoiseModels ==
    {NoiseModel(ts, cs) : <<ts, cs>> \in
        UNION {{ts} \X [DOMAIN ts -> Rates] : ts \in TermLists}}

NoCall ==
    [op |-> "none", ok |-> TRUE, strength |-> 0, operator |-> ID(NumPauliQubits),
     sgn |-> 0, overhead |-> 0]

\* One NoiseModel, as LayerNoiseData.nnls_fit or a caller constructs it, and
\* a PERCircuit of one or two layers that carry it.
NoiseInit ==
    /\ processorspec = [pc |-> "idle"]
    /\ experiment = [pc |-> "idle"] /\ learning = [pc |-> "idle"]
    /\ models \in [{1} -> NoiseModels]
    /\ call = NoCall
    /\ ovh_log = <<>>
    /\ per \in {[pc |-> "circuit", layers |-> ls] : ls \in {<<1>>, <<1, 1>>}}
    /\ qc = <<>> /\ inst_list = <<>> /\ todo = <<>> /\ circ = <<>>
    /\ layer_qubits = {} /\ newlayer = <<>> /\ layers = <<>> /\ part_pc = "idle"
    /\ edges = {} /\ nverts = 0 /\ vertex = 0 /\ bases = <<>>
    /\ meas_bases = <<>> /\ mb_pc = "idle"
    /\ bench = [pc |-> "idle"]

notNoiseVars == <<partVars, basesVars, per, bench, experiment,
    learning, processorspec>>

\* the results <<strength, overhead>> of the last two init_scaling calls that
\* followed one another
Logged(log, sNum, overhead) ==
    IF log = <<>> THEN << <<sNum, overhead>> >>
    ELSE << log[Len(log)], <<sNum, overhead>> >>

\* nm.init_scaling(strength)
InitScaling ==
    \E m \in DOMAIN models, sNum \in Strengths :
        /\ models' = [models EXCEPT ![m] = init_scaling(models[m], sNum)]
        /\ call' = [NoCall EXCEPT !.op = "init_scaling", !.strength = sNum]
        /\ ovh_log' = Logged(ovh_log, sNum, models'[m].overhead)
        /\ UNCHANGED notNoiseVars

RECURSIVE ParamList(_, _)
\* a list of (term, rate) pairs: the targets `given`, in the order of the terms
ParamList(given, k) ==
    IF k > Len(ModelTermOrder) THEN <<>>
    ELSE (IF k \in DOMAIN given THEN << <<ModelTermOrder[k], given[k]>> >> ELSE <<>>)
         \o ParamList(given, k + 1)

\* nm._init_tuning(noise_params), noise_params a list of (term, rate) pairs
InitTuning ==
    \E m \in DOMAIN models :
    \E given \in UNION {[S -> TuningRates] : S \in SUBSET (1 .. (MaxTerms + 1))} :
        LET noise_params == ParamList(given, 1) IN
        /\ models' = [models EXCEPT ![m] = init_tuning(models[m], noise_params)]
        /\ call' = [NoCall EXCEPT !.op = "_init_tuning",
                       !.ok = ~RaisesKeyError(models[m].coeffs, ToDict(noise_params))]
        /\ ovh_log' = <<>>
        /\ UNCHANGED notNoiseVars

\* nm.sample(); before the first init_scaling/_init_tuning self.probs does
\* not exist and line 67 raises AttributeError
Sample ==
    \E m \in DOMAIN models :
        /\ IF models[m].inited
           THEN \E fired \in Firings(models[m].probs) :
                  call' = [NoCall EXCEPT !.op = "sample",
                      !.operator = SampleOperator(models[m].probs, fired, 1, ID(NumPauliQubits)),
                      !.sgn = SampleSign(models[m].probs, fired, 1, 0)]
           ELSE call' = [NoCall EXCEPT !.op = "sample", !.ok = FALSE]
        /\ ovh_log' = <<>>
        /\ UNCHANGED models
        /\ UNCHANGED notNoiseVars

RECURSIVE OverheadLoop(_, _, _, _)
\* PERCircuit.overhead (percircuit.py:26-31) from the k-th layer on:
\* <<the models afterwards, the product>>
OverheadLoop(ms, ls, sNum, k) ==
    IF k > Len(ls) THEN <<ms, 1>>
    ELSE LET scaled == [ms EXCEPT ![ls[k]] = init_scaling(ms[ls[k]], sNum)]
             rest == OverheadLoop(scaled, ls, sNum, k + 1)
         IN  <<rest[1], scaled[ls[k]].overhead * rest[2]>>

\* percirc.overhead(noise_strength)
CircuitOverhead ==
    \E sNum \in Strengths :
        LET r == OverheadLoop(models, per.layers, sNum, 1) IN
        /\ models' = r[1]
        /\ call' = [NoCall EXCEPT !.op = "overhead",
                                  !.strength = sNum, !.overhead = r[2]]
        /\ ovh_log' = <<>>
        /\ UNCHANGED notNoiseVars

NoiseNext == InitScaling \/ InitTuning \/ Sample \/ CircuitOverhead

SpecNoise == NoiseInit /\ [][NoiseNext]_vars


\* ======================================== PERInstance / CircuitLayer.sample
\* The PERCircuit of SpecPER: its k-th layer carries the NoiseModel
\* LayerModel(k); the first two layers have the same Clifford layer and so
\* share one NoiseModel object (percircuit.py:22-24).
LayerModel(k) == IF k <= 2 THEN 1 ELSE 2

\* learned rates of the layers' models: negative, zero and positive
PERRates == {-StrengthDen, 0, StrengthDen}

PERModels(n) ==
    {NoiseModel(SubSeq(ModelTermOrder, 1, n), cs) : cs \in [1 .. n -> PERRates]}

\* raw expectation values, in units of 1/MaxExpec
Expectations == (-MaxExpec) .. MaxExpec

NoInstance ==
    [noise_strength |-> 0, k |-> 0, sgn_tot |-> 0, overhead |-> 1,
     sgns |-> <<>>, expec |-> 0, adjusted |-> 0]

\* The state after PERCircuit.add_noise_models (percircuit.py:17-24): the
\* PERCircuit's layers have their noise models, no instance is generated yet.
PERInit ==
    /\ processorspec = [pc |-> "idle"]
    /\ experiment = [pc |-> "idle"] /\ learning = [pc |-> "idle"]
    /\ models \in [{1, 2} -> PERModels(1) \cup PERModels(2)]
    /\ models[1] \in PERModels(2) /\ models[2] \in PERModels(1)
    /\ per \in {[pc |-> "ready", layers |-> [k \in 1 .. n |-> LayerModel(k)],
                 inst |-> NoInstance] : n \in 1 .. MaxLayers}
    /\ call = [op |-> "none"] /\ ovh_log = <<>>
    /\ qc = <<>> /\ inst_list = <<>> /\ todo = <<>> /\ circ = <<>>
    /\ layer_qubits = {} /\ newlayer = <<>> /\ layers = <<>> /\ part_pc = "idle"
    /\ edges = {} /\ nverts = 0 /\ vertex = 0 /\ bases = <<>>
    /\ meas_bases = <<>> /\ mb_pc = "idle"
    /\ bench = [pc |-> "idle"]

notPERVars == <<partVars, basesVars, call, ovh_log, bench,
    experiment, learning, processorspec>>

\* circuitlayer.py:38: self.noisemodel.init_scaling(noise_strength)
NotRescaled(nm, noise_strength) ==
    IF nm.inited THEN nm ELSE init_scaling(nm, noise_strength)

Rescaled(nm, noise_strength) == init_scaling(nm, noise_strength)

\* perinstance.py:36: self.sgn_tot ^= sgn
Xor(a, b) == (a + b) % 2

\* perinstance.py:52: expec * self.overhead * (-1)**self.sgn_tot
AdjustedNoSign(expec, overhead, sgn_tot) == expec * overhead

Adjusted(expec, overhead, sgn_tot) ==
    expec * overhead * (IF sgn_tot % 2 = 0 THEN 1 ELSE -1)

\* PERRun._generate (perrun.py:21-25) constructs the next PERInstance:
\* PERInstance.__init__ and lines 28-31 of _instance
NewInstance ==
    /\ per.pc \in {"ready", "built", "adjusted"}
    /\ \E lmbda \in Strengths :
         per' = [per EXCEPT !.pc = "sampling",
                            !.inst = [NoInstance EXCEPT !.noise_strength = lmbda,
                                                        !.k = 1]]
    /\ UNCHANGED models
    /\ UNCHANGED notPERVars

\* one iteration of the loop of _instance (perinstance.py:34-37), with the
\* whole of CircuitLayer.sample (circuitlayer.py:32-53); the gates that
\* sample appends to the circuit are not tracked here
LayerSample ==
    /\ per.pc = "sampling"
    /\ per.inst.k <= Len(per.layers)
    /\ LET m == per.layers[per.inst.k]
           nm == Rescaled(models[m], per.inst.noise_strength)
       IN  /\ models' = [models EXCEPT ![m] = nm]
           /\ \E fired \in Firings(nm.probs) :
                LET sgn == SampleSign(nm.probs, fired, 1, 0) IN
                per' = [per EXCEPT !.inst.sgn_tot = Xor(@, sgn),
                                   !.inst.overhead = @ * nm.overhead,
                                   !.inst.sgns = Append(@, sgn),
                                   !.inst.k = @ + 1]
    /\ UNCHANGED notPERVars

\* perinstance.py:39-45: basis change, readout twirl, measurement, transpile
FinishInstance ==
    /\ per.pc = "sampling"
    /\ per.inst.k > Len(per.layers)
    /\ per' = [per EXCEPT !.pc = "built"]
    /\ UNCHANGED models
    /\ UNCHANGED notPERVars

\* get_adjusted_expectation (perinstance.py:47-52) once the result is
\* attached; get_expectation returns a value between -1 and 1
GetAdjustedExpectation ==
    /\ per.pc = "built"
    /\ \E expec \in Expectations :
         per' = [per EXCEPT !.pc = "adjusted",
                            !.inst.expec = expec,
                            !.inst.adjusted =
                                Adjusted(expec, per.inst.overhead, per.inst.sgn_tot)]
    /\ UNCHANGED models
    /\ UNCHANGED notPERVars

PERNext == NewInstance \/ LayerSample \/ FinishInstance \/ GetAdjustedExpectation

SpecPER == PERInit /\ [][PERNext]_vars


\* ============================== PERInstances generated with interleaved steps
\* Two PERInstances of different noise strengths are built over one PERCircuit
\* and take their steps in any order.  A step is one statement that touches
\* the layer's NoiseModel: init_scaling (circuitlayer.py:38), sample
\* (circuitlayer.py:47) and the read of overhead (perinstance.py:37).
Generators == {1, 2}

NewGenerator(lmbda) ==
    [noise_strength |-> lmbda, k |-> 1, pc |-> "scale", sgn |-> 0,
     sgn_tot |-> 0, overhead |-> 1, sgns |-> <<>>, dists |-> <<>>]

ConcInit ==
    /\ processorspec = [pc |-> "idle"]
    /\ experiment = [pc |-> "idle"] /\ learning = [pc |-> "idle"]
    /\ models \in [{1, 2} -> PERModels(1) \cup PERModels(2)]
    /\ models[1] \in PERModels(2) /\ models[2] \in PERModels(1)
    /\ per \in {[pc |-> "interleaved",
                 layers |-> [k \in 1 .. n |-> LayerModel(k)],
                 insts |-> [g \in Generators |->
                               NewGenerator(ss[g])]] :
                    n \in 1 .. (MaxLayers - 1),
                    ss \in {t \in [Generators -> Strengths] : t[1] < t[2]}}
    /\ call = [op |-> "none"] /\ ovh_log = <<>>
    /\ qc = <<>> /\ inst_list = <<>> /\ todo = <<>> /\ circ = <<>>
    /\ layer_qubits = {} /\ newlayer = <<>> /\ layers = <<>> /\ part_pc = "idle"
    /\ edges = {} /\ nverts = 0 /\ vertex = 0 /\ bases = <<>>
    /\ meas_bases = <<>> /\ mb_pc = "idle"
    /\ bench = [pc |-> "idle"]

\* circuitlayer.py:38
ConcScale ==
    /\ per.pc = "interleaved"
    /\ \E g \in Generators :
         LET inst == per.insts[g]
             m == per.layers[inst.k]
         IN  /\ inst.pc = "scale"
             /\ models' = [models EXCEPT ![m] = Rescaled(@, inst.noise_strength)]
             /\ per' = [per EXCEPT !.insts[g].pc = "sample"]
    /\ UNCHANGED notPERVars

\* circuitlayer.py:40-53: the draw of line 47 reads the probabilities that
\* the NoiseModel holds now
ConcSample ==
    /\ per.pc = "interleaved"
    /\ \E g \in Generators :
         LET inst == per.insts[g]
             nm == models[per.layers[inst.k]]
         IN  /\ inst.pc = "sample"
             /\ \E fired \in Firings(nm.probs) :
                  per' = [per EXCEPT
                            !.insts[g].pc = "accumulate",
                            !.insts[g].sgn = SampleSign(nm.probs, fired, 1, 0),
                            !.insts[g].dists = Append(@, nm.probs)]
    /\ UNCHANGED models
    /\ UNCHANGED notPERVars

\* perinstance.py:36-37, and line 34 for the next layer
ConcAccumulate ==
    /\ per.pc = "interleaved"
    /\ \E g \in Generators :
         LET inst == per.insts[g]
             nm == models[per.layers[inst.k]]
         IN  /\ inst.pc = "accumulate"
             /\ per' = [per EXCEPT
                          !.insts[g].sgn_tot = Xor(@, inst.sgn),
                          !.insts[g].overhead = @ * nm.overhead,
                          !.insts[g].sgns = Append(@, inst.sgn),
                          !.insts[g].k = @ + 1,
                          !.insts[g].pc = IF inst.k < Len(per.layers)
                                          THEN "scale" ELSE "finish"]
    /\ UNCHANGED models
    /\ UNCHANGED notPERVars

\* perinstance.py:39-45
ConcFinish ==
    /\ per.pc = "interleaved"
    /\ \E g \in Generators :
         /\ per.insts[g].pc = "finish"
         /\ per' = [per EXCEPT !.insts[g].pc = "built"]
    /\ UNCHANGED models
    /\ UNCHANGED notPERVars

ConcNext == ConcScale \/ ConcSample \/ ConcAccumulate \/ ConcFinish

SpecPERInterleaved == ConcInit /\ [][ConcNext]_vars

\* ====================================================== BenchmarkInstance
\* The Clifford layers of SpecBench are circuits over two qubits holding one
\* two-qubit Clifford gate; CircuitLayer.separate_gates(2) keeps every
\* two-qubit instruction, whether or not it is its own inverse.
Gates == {"cx", "cx_rev", "cz", "swap", "dcx"}

num_qubits(cliff_layer) == 2

Paulis(n) == [1 .. n -> Labels]

\* G P G^dagger, phase dropped, for the one-qubit Paulis X and Z of qubit q
\* (1 or 2); dcx is cx followed by cx_rev
GateImage(gate, q, a) ==
    LET x == a = "X" IN
    CASE gate = "cx"     -> IF q = 1 THEN (IF x THEN <<"X", "X">> ELSE <<"Z", "I">>)
                                     ELSE (IF x THEN <<"I", "X">> ELSE <<"Z", "Z">>)
      [] gate = "cx_rev" -> IF q = 1 THEN (IF x THEN <<"X", "I">> ELSE <<"Z", "Z">>)
                                     ELSE (IF x THEN <<"X", "X">> ELSE <<"I", "Z">>)
      [] gate = "cz"     -> IF q = 1 THEN (IF x THEN <<"X", "Z">> ELSE <<"Z", "I">>)
                                     ELSE (IF x THEN <<"Z", "X">> ELSE <<"I", "Z">>)
      [] gate = "swap"   -> IF q = 1 THEN (IF x THEN <<"I", "X">> ELSE <<"I", "Z">>)
                                     ELSE (IF x THEN <<"X", "I">> ELSE <<"Z", "I">>)
      [] gate = "dcx"    -> IF q = 1 THEN (IF x THEN <<"I", "X">> ELSE <<"Z", "Z">>)
                                     ELSE (IF x THEN <<"X", "X">> ELSE <<"Z", "I">>)

\* the image of the one-qubit Pauli a on qubit q: Y is X times Z up to phase
LabelImage(gate, q, a) ==
    CASE a = "I" -> ID(2)
      [] a = "Y" -> Mul(GateImage(gate, q, "X"), GateImage(gate, q, "Z"))
      [] OTHER   -> GateImage(gate, q, a)

\* what composing the layer does to a Pauli standing before it: the layer
\* applied to the circuit turns P into G P G^dagger (benchmarkinstance.py:63)
Propagate(gate, pauli) ==
    Mul(LabelImage(gate, 1, pauli[1]), LabelImage(gate, 2, pauli[2]))

\* QiskitCircuit.conjugate (circuit.py:133-136): Pauli.evolve with its default
\* frame returns G^dagger P G; the phase is dropped
NotConjugated(gate, pauli) == pauli

conjugate(gate, pauli) ==
    CHOOSE q \in Paulis(2) : Propagate(gate, q) = pauli

\* the labels in which LayerLearning measures
BenchBases == {[i \in 1 .. 2 |-> "Z"], [i \in 1 .. 2 |-> "X"]}

\* The state at the call BenchmarkInstance(basis, basis, d, procspec,
\* cliff_layer) of layerlearning.py:64-66
BenchInit ==
    /\ processorspec = [pc |-> "idle"]
    /\ experiment = [pc |-> "idle"] /\ learning = [pc |-> "idle"]
    /\ bench \in {[pc |-> "start", cliff_layer |-> g, prep_basis |-> b,
                   meas_basis |-> b, depth |-> d, i |-> 0,
                   pauli_frame |-> ID(2), circ |-> <<>>, rostring |-> <<>>] :
                      g \in Gates, b \in BenchBases, d \in 0 .. MaxDepth}
    /\ models = <<>> /\ call = [op |-> "none"] /\ ovh_log = <<>>
    /\ per = [pc |-> "idle"]
    /\ qc = <<>> /\ inst_list = <<>> /\ todo = <<>> /\ circ = <<>>
    /\ layer_qubits = {} /\ newlayer = <<>> /\ layers = <<>> /\ part_pc = "idle"
    /\ edges = {} /\ nverts = 0 /\ vertex = 0 /\ bases = <<>>
    /\ meas_bases = <<>> /\ mb_pc = "idle"

notBenchVars == <<partVars, basesVars, nmVars, per, experiment,
    learning, processorspec>>

\* benchmarkinstance.py:43-52
BenchBegin ==
    /\ bench.pc = "start"
    /\ bench' = [bench EXCEPT
                   !.pc = "loop",
                   !.pauli_frame = ID(num_qubits(bench.cliff_layer)),
                   !.circ = <<<<"basis_change", bench.prep_basis>>>>]
    /\ UNCHANGED notBenchVars

\* one repetition of the noisy layer, benchmarkinstance.py:55-64
Repetition ==
    /\ bench.pc = "loop"
    /\ bench.i < bench.depth
    /\ \E twirl \in Paulis(num_qubits(bench.cliff_layer)) :
         bench' = [bench EXCEPT
                     !.pauli_frame = conjugate(bench.cliff_layer, Mul(@, twirl)),
                     !.circ = @ \o <<<<"pauli", twirl>>, <<"cliff_layer">>,
                                     <<"barrier">>>>,
                     !.i = @ + 1]
    /\ UNCHANGED notBenchVars

\* benchmarkinstance.py:67
ClosingFrame ==
    /\ bench.pc = "loop"
    /\ bench.i = bench.depth
    /\ bench' = [bench EXCEPT !.pc = "framed",
                              !.circ = Append(@, <<"pauli", bench.pauli_frame>>)]
    /\ UNCHANGED notBenchVars

\* benchmarkinstance.py:70-75: the measurement basis change
\* (instance.py:53-56), the readout twirl (instance.py:43-51), measure_all
\* and the transpile step
BenchFinish ==
    /\ bench.pc = "framed"
    /\ \E readout_twirl \in [1 .. num_qubits(bench.cliff_layer) -> {"I", "X"}] :
         bench' = [bench EXCEPT
                     !.pc = "done",
                     !.rostring = <<readout_twirl>>,
                     !.circ = @ \o <<<<"basis_change_inverse", bench.meas_basis>>,
                                     <<"pauli", readout_twirl>>,
                                     <<"measure_all">>>>]
    /\ UNCHANGED notBenchVars

BenchNext == BenchBegin \/ Repetition \/ ClosingFrame \/ BenchFinish

SpecBench == BenchInit /\ [][BenchNext]_vars

\* ======================== the experiments: generate(...) and run(executor)
\* experiment.kind is "tomography" (SparsePauliTomographyExperiment) or "per"
\* (PERExperiment); experiment.groups is the number of layer profiles
\* (experiment.py:36-42) or of PERCircuits (perexperiment.py:45-52).  An
\* instance is [id, group, result]: result is the set of results attached to
\* it, and a result is <<the run call, its position in the returned list>>.
\* points and before record the last generate call: the number of depths or
\* noise strengths it was given and the instance list it found.
Kinds == {"tomography", "per"}

notExpVars == <<partVars, basesVars, nmVars, per, bench, learning,
    processorspec>>

\* the state after __init__: a set of profiles may be empty (a circuit
\* without two-qubit gates), circuits[0] exists (experiment.py:30,
\* perexperiment.py:32)
ExpInit ==
    /\ processorspec = [pc |-> "idle"]
    /\ experiment \in
         {[kind |-> kd, groups |-> g, pc |-> "ready", gens |-> 0, runs |-> 0,
           last |-> "none", error |-> "none", instances |-> <<>>,
           points |-> 0, before |-> <<>>,
           circuits |-> <<>>, results |-> <<>>, calls |-> <<>>] :
              kd \in Kinds, g \in 0 .. MaxGroups}
    /\ experiment.kind = "per" => experiment.groups >= 1
    /\ learning = [pc |-> "idle"]
    /\ models = <<>> /\ call = [op |-> "none"] /\ ovh_log = <<>>
    /\ per = [pc |-> "idle"] /\ bench = [pc |-> "idle"]
    /\ qc = <<>> /\ inst_list = <<>> /\ todo = <<>> /\ circ = <<>>
    /\ layer_qubits = {} /\ newlayer = <<>> /\ layers = <<>> /\ part_pc = "idle"
    /\ edges = {} /\ nverts = 0 /\ vertex = 0 /\ bases = <<>>
    /\ meas_bases = <<>> /\ mb_pc = "idle"

\* the instances of one generate call: `each` for every group, group by group
NewInstances(gen, groups, each) ==
    [j \in 1 .. groups * each |->
        [id |-> <<gen, j>>, group |-> ((j - 1) \div each) + 1, result |-> {}]]

\* SparsePauliTomographyExperiment.generate (experiment.py:53-66): the
\* constructor call of line 65 passes four arguments to
\* LayerLearning.__init__(self, cliff_layer, procspec) (layerlearning.py:12)
\* and raises TypeError, after line 63 has emptied the instance list
TomographyGenerate ==
    /\ experiment.kind = "tomography" /\ experiment.pc = "ready"
    /\ experiment.gens < MaxRuns
    /\ \E depths \in 0 .. MaxPoints :
         experiment' =
            [experiment EXCEPT
               !.gens = @ + 1, !.last = "generate",
               !.points = depths, !.before = experiment.instances,
               !.error = IF depths < 2 THEN "Exception"
                         ELSE IF experiment.groups > 0 THEN "TypeError"
                         ELSE "none",
               !.instances = IF depths < 2 THEN @ ELSE <<>>]
    /\ UNCHANGED notExpVars

\* PERExperiment.generate (perexperiment.py:74-107) with PERRun._generate
\* (perrun.py:18-25) for one measurement basis: every PERRun holds
\* len(noise_strengths) * samples instances
PERGenerate ==
    /\ experiment.kind = "per" /\ experiment.pc = "ready"
    /\ experiment.gens < MaxRuns
    /\ \E noise_strengths \in 0 .. MaxPoints, samples \in 0 .. MaxSamples :
         experiment' =
            [experiment EXCEPT
               !.gens = @ + 1, !.last = "generate", !.error = "none",
               !.points = noise_strengths, !.before = experiment.instances,
               !.instances = NewInstances(experiment.gens + 1, experiment.groups,
                                          noise_strengths * samples)]
    /\ UNCHANGED notExpVars

\* run, up to the executor call: experiment.py:73-74 binds `circuits` inside
\* the loop over the profiles, perexperiment.py:117-122 binds it always
RunCollect ==
    /\ experiment.pc = "ready"
    /\ experiment.gens > 0 /\ experiment.runs < MaxRuns
    /\ experiment' =
          [experiment EXCEPT
             !.pc = "collected", !.runs = @ + 1, !.last = "run", !.error = "none",
             !.results = <<>>,
             !.circuits =
                 IF experiment.kind = "tomography" /\ experiment.groups = 0
                 THEN <<>>
                 ELSE <<[j \in DOMAIN experiment.instances |->
                            experiment.instances[j].id]>>]
    /\ UNCHANGED notExpVars

\* results = executor(circuits) (experiment.py:76, perexperiment.py:125); the
\* executor returns a list that may be shorter than the list of circuits
RunExecute ==
    /\ experiment.pc = "collected"
    /\ experiment.circuits # <<>>
    /\ \E n \in 0 .. Len(experiment.circuits[1]) :
         experiment' =
            [experiment EXCEPT
               !.pc = "executed",
               !.calls = Append(@, experiment.circuits[1]),
               !.results = [j \in 1 .. n |-> <<experiment.runs, j>>]]
    /\ UNCHANGED notExpVars

\* experiment.py:76 when no profile has bound `circuits`
RunUnbound ==
    /\ experiment.pc = "collected"
    /\ experiment.circuits = <<>>
    /\ experiment' = [experiment EXCEPT !.pc = "ready",
                                        !.error = "UnboundLocalError"]
    /\ UNCHANGED notExpVars

\* Instance.add_result (instance.py:28-37) for every pair of the zip
\* (experiment.py:78-79, perexperiment.py:128-129)
RunAttach ==
    /\ experiment.pc = "executed"
    /\ experiment' =
          [experiment EXCEPT
             !.pc = "ready",
             !.instances =
                 [j \in DOMAIN @ |->
                     IF j <= Len(experiment.results)
                     THEN [@[j] EXCEPT !.result = @ \cup {experiment.results[j]}]
                     ELSE @[j]]]
    /\ UNCHANGED notExpVars

ExpNext ==
    \/ TomographyGenerate \/ PERGenerate
    \/ RunCollect \/ RunExecute \/ RunUnbound \/ RunAttach

SpecExperiment == ExpInit /\ [][ExpNext]_vars

\* ================================ CircuitLayer.sample: the gates appended
\* the model terms of a layer of one two-qubit gate
LayerTermOrder == << <<"I", "X">>, <<"Z", "I">>, <<"X", "Y">>, <<"Y", "Z">> >>

\* A CircuitLayer of one two-qubit gate with its NoiseModel (percircuit.py:
\* 22-24), at the call layer.sample(noise_strength, circ) of
\* perinstance.py:35 on an empty circuit
SampleInit ==
    /\ processorspec = [pc |-> "idle"]
    /\ experiment = [pc |-> "idle"] /\ learning = [pc |-> "idle"]
    /\ models \in
         {<<NoiseModel(SubSeq(LayerTermOrder, 1, n), cs)>> :
              <<n, cs>> \in UNION {{n} \X [1 .. n -> PERRates] : n \in 1 .. MaxTerms}}
    /\ per \in {[pc |-> "layer", cliff_layer |-> g, noise_strength |-> s,
                 circ |-> <<>>, twirl |-> <<>>, op |-> <<>>, sgn |-> 0] :
                    g \in Gates, s \in Strengths}
    /\ call = [op |-> "none"] /\ ovh_log = <<>>
    /\ qc = <<>> /\ inst_list = <<>> /\ todo = <<>> /\ circ = <<>>
    /\ layer_qubits = {} /\ newlayer = <<>> /\ layers = <<>> /\ part_pc = "idle"
    /\ edges = {} /\ nverts = 0 /\ vertex = 0 /\ bases = <<>>
    /\ meas_bases = <<>> /\ mb_pc = "idle"
    /\ bench = [pc |-> "idle"]

\* CircuitLayer.sample (circuitlayer.py:32-53)
CircuitLayerSample ==
    /\ per.pc = "layer"
    /\ LET nm == init_scaling(models[1], per.noise_strength) IN
         /\ models' = [models EXCEPT ![1] = nm]
         /\ \E twirl \in Paulis(num_qubits(per.cliff_layer)) :
            \E fired \in Firings(nm.probs) :
              LET op == SampleOperator(nm.probs, fired, 1,
                                       ID(num_qubits(per.cliff_layer)))
                  sgn == SampleSign(nm.probs, fired, 1, 0)
              IN  per' = [per EXCEPT
                     !.pc = "sampled",
                     !.twirl = twirl, !.op = op, !.sgn = sgn,
                     !.circ = @ \o << <<"single_layer">>,
                                      <<"pauli", twirl>>,
                                      <<"pauli", op>>,
                                      <<"cliff_layer">>,
                                      <<"barrier">>,
                                      <<"pauli", conjugate(per.cliff_layer, twirl)>> >>]
    /\ UNCHANGED notPERVars

SampleNext == CircuitLayerSample

SpecSample == SampleInit /\ [][SampleNext]_vars

\* ========================================= ProcessorSpec._model_terms
\* identity = ["I"]*n (processorspec.py:74); list index q is position q + 1
identity(n) == [i \in 1 .. n |-> "I"]

\* "".join(reversed(pauli)) (processorspec.py:82)
Reversed(pauli) == [i \in 1 .. Len(pauli) |-> pauli[Len(pauli) + 1 - i]]

\* self._processor.pauli_type(p) (processorspec.py:89, pauli.py): the Pauli
\* of a label has the label's last character on qubit 0
pauli_type(string) == [q \in 0 .. (Len(string) - 1) |-> string[Len(string) - q]]

\* the state when ProcessorSpec.__init__ calls _model_terms
\* (processorspec.py:17): _meas_bases has returned, so no vertex has three
\* predecessors (processorspec.py:63-64)
TermsInit ==
    /\ nverts \in 1 .. MaxVerts
    /\ edges \in SUBSET {{u, v} : u, v \in 0 .. (nverts - 1)}
    /\ \A e \in edges : Cardinality(e) = 2
    /\ \A v \in 0 .. (nverts - 1) : Cardinality(Predecessors(v)) <= 2
    /\ processorspec = [pc |-> "loop", edge_list |-> edges, model_terms |-> {},
                        len |-> 0, error |-> "none"]
    /\ vertex = 0 /\ bases = <<>> /\ meas_bases = <<>> /\ mb_pc = "idle"
    /\ experiment = [pc |-> "idle"] /\ learning = [pc |-> "idle"]
    /\ models = <<>> /\ call = [op |-> "none"] /\ ovh_log = <<>>
    /\ per = [pc |-> "idle"] /\ bench = [pc |-> "idle"]
    /\ qc = <<>> /\ inst_list = <<>> /\ todo = <<>> /\ circ = <<>>
    /\ layer_qubits = {} /\ newlayer = <<>> /\ layers = <<>> /\ part_pc = "idle"

notTermsVars ==
    <<partVars, basesVars, nmVars, per, bench, experiment, learning>>

\* one iteration of `for q1,q2 in self._connectivity.edge_list()`
\* (processorspec.py:77-82); the edge list gives the edges in some order,
\* each with some orientation
VisitEdge ==
    /\ processorspec.pc = "loop"
    /\ \E e \in processorspec.edge_list : \E q1, q2 \in e :
         /\ q1 # q2
         /\ processorspec' =
              [processorspec EXCEPT
                 !.edge_list = @ \ {e},
                 !.model_terms = @ \cup
                    {Reversed([i \in 1 .. nverts |->
                                  IF i = q1 + 1 THEN p[1]
                                  ELSE IF i = q2 + 1 THEN p[2]
                                  ELSE identity(nverts)[i]]) :
                        p \in Labels \X Labels}]
    /\ UNCHANGED notTermsVars

\* processorspec.py:84-89: set.remove raises KeyError when the identity is
\* not in the set; the list returned has one Pauli for every string left
TermsReturn ==
    /\ processorspec.pc = "loop"
    /\ processorspec.edge_list = {}
    /\ LET id == Reversed(identity(nverts))
           left == processorspec.model_terms \ {id}
       IN  processorspec' =
              IF id \notin processorspec.model_terms
              THEN [processorspec EXCEPT !.pc = "raised", !.error = "KeyError"]
              ELSE [processorspec EXCEPT
                      !.pc = "returned",
                      !.len = Cardinality(left),
                      !.model_terms = {pauli_type(p) : p \in left}]
    /\ UNCHANGED notTermsVars

TermsNext == VisitEdge \/ TermsReturn

SpecTerms == TermsInit /\ [][TermsNext]_vars

\* =================================== layer profiles and their noise models
\* Instruction.__hash__ (instruction.py:23-25): the hash of (name, support)
InstHash(inst) == <<inst.name, inst.support>>

\* frozenset([inst for inst in circuit]): the set of the instructions up to
\* Instruction.__eq__ (instruction.py:27-29: same name and same support)
frozenset(circuit) == Range(circuit)

\* Circuit.__eq__ and __hash__ (circuit.py:71-80); the hash of a frozenset
\* is a function of the set of its elements' hashes
CircuitEq(a, b) == frozenset(a) = frozenset(b)

ListHash(circuit) == [k \in DOMAIN circuit |-> InstHash(circuit[k])]

CircuitHash(circuit) == {InstHash(inst) : inst \in frozenset(circuit)}

\* CircuitLayer.__eq__ and __hash__ (circuitlayer.py:55-66)
LayerEq(a, b) == frozenset(a.cliff_layer) = frozenset(b.cliff_layer)

LayerHash(a) == CircuitHash(a.cliff_layer)

\* set.add and dict lookup: an element or key is found when its hash and
\* __eq__ match a stored one
Found(stored, circuit) ==
    {k \in DOMAIN stored :
        CircuitHash(stored[k]) = CircuitHash(circuit) /\ CircuitEq(stored[k], circuit)}

\* the sweeps' circuits: every instruction missed the blocking set when it
\* was looked at (percircuit.py:56-61)
RECURSIVE IsSweep(_, _)
IsSweep(c, lq) ==
    c = <<>> \/ (Joins(lq, Head(c)) /\ IsSweep(Tail(c), Blocking(lq, Head(c))))

ProfileInsts ==
    {Inst("h", <<0>>), Inst("cx", <<0, 1>>), Inst("cx", <<1, 0>>),
     Inst("cx", <<NumQubits - 2, NumQubits - 1>>)}

\* the CircuitLayers a PERCircuit keeps: sweeps with a two-qubit gate
LayerPool ==
    {CircuitLayer(c) :
        c \in {d \in UNION {[1 .. n -> ProfileInsts] : n \in 1 .. MaxLen} :
                  /\ \A i, j \in DOMAIN d : i # j => d[i] # d[j]
                  /\ IsSweep(d, {})
                  /\ separate_gates(d, 2) # <<>>}}

\* the state when SparsePauliTomographyExperiment.__init__ has parsed the
\* circuits (experiment.py:37-39) and starts collecting the profiles
ProfInit ==
    /\ processorspec = [pc |-> "idle"]
    /\ experiment \in
         {[pc |-> "profiling", layers |-> ls, i |-> 1, profiles |-> <<>>,
           noisemodels |-> <<>>, assigned |-> <<>>, error |-> "none"] :
              ls \in [1 .. 2 -> LayerPool]}
    /\ learning = [pc |-> "idle"]
    /\ models = <<>> /\ call = [op |-> "none"] /\ ovh_log = <<>>
    /\ per = [pc |-> "idle"] /\ bench = [pc |-> "idle"]
    /\ qc = <<>> /\ inst_list = <<>> /\ todo = <<>> /\ circ = <<>>
    /\ layer_qubits = {} /\ newlayer = <<>> /\ layers = <<>> /\ part_pc = "idle"
    /\ edges = {} /\ nverts = 0 /\ vertex = 0 /\ bases = <<>>
    /\ meas_bases = <<>> /\ mb_pc = "idle"

\* experiment.py:40-42: self._profiles.add(layer.cliff_layer)
AddProfile ==
    /\ experiment.pc = "profiling"
    /\ experiment.i <= Len(experiment.layers)
    /\ LET c == experiment.layers[experiment.i].cliff_layer IN
       experiment' =
          [experiment EXCEPT
             !.i = @ + 1,
             !.profiles = IF c # <<>> /\ Found(@, c) = {} THEN Append(@, c) ELSE @]
    /\ UNCHANGED notExpVars

\* the analysis makes one NoiseModel for every profile (nnls_fit,
\* layernoisedata.py:100) and NoiseDataFrame.__init__ stores them by
\* cliff_layer (noisedataframe.py:16-18); a NoiseModel is its number here
BuildFrame ==
    /\ experiment.pc = "profiling"
    /\ experiment.i > Len(experiment.layers)
    /\ experiment' =
          [experiment EXCEPT
             !.pc = "assigning", !.i = 1,
             !.noisemodels = [k \in DOMAIN experiment.profiles |->
                                 [key |-> experiment.profiles[k], nm |-> k]]]
    /\ UNCHANGED notExpVars

\* one iteration of PERCircuit.add_noise_models (percircuit.py:22-24) on
\* the layers of the same circuits
AddNoiseModel ==
    /\ experiment.pc = "assigning"
    /\ experiment.i <= Len(experiment.layers)
    /\ LET c == experiment.layers[experiment.i].cliff_layer
           keys == [k \in DOMAIN experiment.noisemodels |->
                       experiment.noisemodels[k].key]
           hit == Found(keys, c)
       IN  experiment' =
              IF hit = {}
              THEN [experiment EXCEPT !.pc = "raised", !.error = "KeyError"]
              ELSE [experiment EXCEPT
                      !.i = @ + 1,
                      !.pc = IF experiment.i = Len(experiment.layers)
                             THEN "assigned" ELSE @,
                      !.assigned = Append(@,
                          experiment.noisemodels[CHOOSE k \in hit : TRUE].nm)]
    /\ UNCHANGED notExpVars

ProfNext == AddProfile \/ BuildFrame \/ AddNoiseModel

SpecProfiles == ProfInit /\ [][ProfNext]_vars

\* ================================== TermData and LayerNoiseData: the fits
\* A real number is an exact fraction <<numerator, denominator>>.  The fit
\* parameters a (spam) and exp(-b) (fidelity) that curve_fit returns within
\* its bounds, and the averaged single expectation values, are multiples of
\* 1/FitDen.
Spams == {<<k, FitDen>> : k \in 1 .. FitDen}
Fidelities == {<<k, FitDen>> : k \in 1 .. FitDen}
SingleExpectations == {<<e, FitDen>> : e \in (-FitDen) .. FitDen}

One == <<FitDen, FitDen>>
FracLess(x, y) == x[1] * y[2] < y[1] * x[2]
Square(x) == <<x[1] * x[1], x[2] * x[2]>>

\* Pauli.commutes: two Paulis commute iff they differ on an even number of
\* the qubits where both are not the identity
commutes(a, b) ==
    Cardinality({i \in DOMAIN a : a[i] # "I" /\ b[i] # "I" /\ a[i] # b[i]}) % 2 = 0

\* layernoisedata.py:73-74
sprod(a, b) == IF commutes(a, b) THEN 0 ELSE 1

RECURSIVE Det(_, _, _)
\* the determinant of the square submatrix of M on the rows and columns
\* listed: expansion along the first listed row
Det(M, rows, cols) ==
    IF rows = <<>> THEN 1
    ELSE LET r == Head(rows)
             minor(j) == Det(M, Tail(rows),
                             [i \in 1 .. Len(cols) - 1 |->
                                 IF i < j THEN cols[i] ELSE cols[i + 1]])
             term(j) == (IF j % 2 = 1 THEN 1 ELSE -1) * M[r][cols[j]] * minor(j)
             sum[j \in 0 .. Len(cols)] ==
                 IF j = 0 THEN 0 ELSE sum[j - 1] + term(j)
         IN  sum[Len(cols)]

\* the increasing sequence of the elements of a set of numbers
RECURSIVE Sorted(_)
Sorted(S) ==
    IF S = {} THEN <<>>
    ELSE LET m == CHOOSE x \in S : \A y \in S : x <= y
         IN  <<m>> \o Sorted(S \ {m})

\* np.linalg.matrix_rank of a square matrix with integer entries: the size
\* of the largest square submatrix with a non-zero determinant
matrix_rank(M) ==
    LET n == Len(M)
        sizes == {k \in 0 .. n :
                    \E R \in SUBSET (1 .. n), C \in SUBSET (1 .. n) :
                        /\ Cardinality(R) = k /\ Cardinality(C) = k
                        /\ Det(M, Sorted(R), Sorted(C)) # 0}
    IN  CHOOSE k \in sizes : \A j \in sizes : j <= k

\* TermData.__init__ (termdata.py:32-48); the unset attributes spam and
\* fidelity are One here and are read only once fitted is TRUE
TermData(pauli, pair) ==
    [pauli |-> pauli, pair |-> pair, fitted |-> FALSE, converged |-> FALSE,
     spam |-> One, fidelity |-> One, pair_fidelity |-> One,
     single_fidelity |-> <<>>, estimate |-> <<>>, clamped |-> FALSE]

\* LayerNoiseData._issingle (layernoisedata.py:65-66)
issingle(term_data, k) ==
    /\ term_data[k].pauli # term_data[k].pair
    /\ \E j \in DOMAIN term_data : term_data[j].pauli = term_data[k].pair

\* layernoisedata.py:76-88
F1(term_data) == [k \in DOMAIN term_data |-> term_data[k].pauli]
F2(term_data) ==
    [k \in DOMAIN term_data |->
        IF issingle(term_data, k) THEN term_data[k].pauli ELSE term_data[k].pair]

\* layernoisedata.py:91: [[sprod(a,b) for a in F1] for b in F1]
M1(term_data) ==
    LET f1 == F1(term_data)
    IN  [b \in DOMAIN f1 |-> [a \in DOMAIN f1 |-> sprod(f1[a], f1[b])]]

\* layernoisedata.py:92: [[sprod(a,b) for a in F1] for b in F2]
M2Transposed(term_data) ==
    LET f1 == F1(term_data)
        f2 == F2(term_data)
    IN  [a \in DOMAIN f1 |-> [b \in DOMAIN f2 |-> sprod(f1[a], f2[b])]]

M2(term_data) ==
    LET f1 == F1(term_data)
        f2 == F2(term_data)
    IN  [b \in DOMAIN f2 |-> [a \in DOMAIN f1 |-> sprod(f1[a], f2[b])]]

\* np.add(M1, M2) (layernoisedata.py:95, 99): row b, column a
CommutationMatrix(term_data) ==
    [b \in DOMAIN term_data |->
        [a \in DOMAIN term_data |-> M1(term_data)[b][a] + M2(term_data)[b][a]]]

\* layernoisedata.py:95
NeverDeficient(term_data) == FALSE

RankDeficient(term_data) ==
    matrix_rank(CommutationMatrix(term_data)) # Len(term_data)

\* the model terms that the layer's instances measure, in the order of
\* procspec.model_terms; _term_data holds a sub-list of them
TermPool == << <<"I", "X">>, <<"I", "Y">>, <<"X", "I">>, <<"Y", "X">> >>

TermLists2 ==
    {[k \in 1 .. Cardinality(S) |-> TermPool[Sorted(S)[k]]] :
        S \in {T \in SUBSET (1 .. Len(TermPool)) :
                  Cardinality(T) >= 1 /\ Cardinality(T) <= MaxTerms}}

\* what TermData._fit returns (termdata.py:70-77): the parameters found by
\* curve_fit as <<a, exp(-b)>>, or <<>> when curve_fit raises
FitOutcomes == {<<>>} \cup {<<a, f>> : a \in Spams, f \in Fidelities}

\* TermData.fit (termdata.py:98-106) for an outcome of _fit; after a failure
\* (a,b) = 1,0, so that spam = 1 and fidelity = exp(0) = 1
FitFailsLow(td, outcome) ==
    LET ab == IF outcome = <<>> THEN <<One, <<1, FitDen>>>> ELSE outcome
    IN  [td EXCEPT !.fitted = TRUE, !.converged = (outcome # <<>>),
                   !.spam = ab[1], !.pair_fidelity = ab[2], !.fidelity = ab[2]]

fit(td, outcome) ==
    LET ab == IF outcome = <<>> THEN <<One, One>> ELSE outcome
    IN  [td EXCEPT !.fitted = TRUE, !.converged = (outcome # <<>>),
                   !.spam = ab[1], !.pair_fidelity = ab[2], !.fidelity = ab[2]]

\* LayerNoiseData after add_expectation has made the TermData objects
\* (layernoisedata.py:43-46)
FitInit ==
    /\ processorspec = [pc |-> "idle"]
    /\ learning \in
         {[pc |-> "data", cliff_layer |-> g,
           term_data |-> [k \in DOMAIN ts |-> TermData(ts[k], conjugate(g, ts[k]))],
           k |-> 1, warnings |-> 0, solves |-> 0, noisemodel |-> <<>>,
           error |-> "none"] : g \in Gates, ts \in TermLists2}
    /\ experiment = [pc |-> "idle"]
    /\ models = <<>> /\ call = [op |-> "none"] /\ ovh_log = <<>>
    /\ per = [pc |-> "idle"] /\ bench = [pc |-> "idle"]
    /\ qc = <<>> /\ inst_list = <<>> /\ todo = <<>> /\ circ = <<>>
    /\ layer_qubits = {} /\ newlayer = <<>> /\ layers = <<>> /\ part_pc = "idle"
    /\ edges = {} /\ nverts = 0 /\ vertex = 0 /\ bases = <<>>
    /\ meas_bases = <<>> /\ mb_pc = "idle"

notLearningVars == <<partVars, basesVars, nmVars, per, bench,
    experiment, processorspec>>

\* one iteration of the loop of fit_noise_model (layernoisedata.py:56-57)
FitTerm ==
    /\ learning.pc \in {"data", "fitting"}
    /\ learning.k <= Len(learning.term_data)
    /\ \E outcome \in FitOutcomes :
         learning' = [learning EXCEPT
                        !.pc = "fitting",
                        !.term_data[learning.k] = fit(@, outcome),
                        !.warnings = IF outcome = <<>> THEN @ + 1 ELSE @,
                        !.k = @ + 1]
    /\ UNCHANGED notLearningVars

\* layernoisedata.py:63 with nnls_fit (lines 69-100); the NoiseModel made at
\* line 100 holds the terms F1 and the solution of the least-squares problem,
\* kept here as the problem itself
NnlsFit ==
    /\ learning.pc = "fitting"
    /\ learning.k > Len(learning.term_data)
    /\ learning' =
          IF RankDeficient(learning.term_data)
          THEN [learning EXCEPT !.pc = "raised", !.error = "Exception"]
          ELSE [learning EXCEPT
                  !.pc = "done",
                  !.solves = @ + 1,
                  !.noisemodel =
                      <<[cliff_layer |-> learning.cliff_layer,
                         model_terms |-> F1(learning.term_data),
                         nnls |-> <<CommutationMatrix(learning.term_data),
                                    [k \in DOMAIN learning.term_data |->
                                        learning.term_data[k].fidelity]>>]>>]
    /\ UNCHANGED notLearningVars

FitNext == FitTerm \/ NnlsFit

SpecFit == FitInit /\ [][FitNext]_vars

\* ------------------------------------------------- TermData.fit_single
RECURSIVE sum(_)
sum(vals) == IF vals = <<>> THEN 0 ELSE Head(vals) + sum(Tail(vals))

\* termdata.py:84-85 for single values in units of 1/FitDen:
\* abs(sum/count/FitDen) / (spam[1]/spam[2])
SingleEstimate(single_vals, spam) ==
    <<Abs(sum(single_vals)) * spam[2], Len(single_vals) * FitDen * spam[1]>>

\* TermData.fit_single (termdata.py:79-96)
FitSingleClampsDown(td, single_vals) ==
    LET estimate == SingleEstimate(single_vals, td.spam)
        bound == Square(td.fidelity)
        clamp == FracLess(bound, estimate)
        fidelity == IF clamp THEN bound ELSE estimate
    IN  [td EXCEPT !.estimate = estimate, !.single_fidelity = fidelity,
                   !.fidelity = fidelity, !.clamped = clamp]

fit_single(td, single_vals) ==
    LET estimate == SingleEstimate(single_vals, td.spam)
        bound == Square(td.fidelity)
        clamp == FracLess(estimate, bound)
        fidelity == IF clamp THEN bound ELSE estimate
    IN  [td EXCEPT !.estimate = estimate, !.single_fidelity = fidelity,
                   !.fidelity = fidelity, !.clamped = clamp]

\* one TermData of a layer, as TermData.__init__ leaves it (termdata.py:32-48)
SingleInit ==
    /\ processorspec = [pc |-> "idle"]
    /\ learning \in
         {[pc |-> "term", cliff_layer |-> g,
           term |-> TermData(TermPool[k], conjugate(g, TermPool[k])),
           single_vals |-> <<>>, warnings |-> 0, error |-> "none"] :
              g \in Gates, k \in DOMAIN TermPool}
    /\ experiment = [pc |-> "idle"]
    /\ models = <<>> /\ call = [op |-> "none"] /\ ovh_log = <<>>
    /\ per = [pc |-> "idle"] /\ bench = [pc |-> "idle"]
    /\ qc = <<>> /\ inst_list = <<>> /\ todo = <<>> /\ circ = <<>>
    /\ layer_qubits = {} /\ newlayer = <<>> /\ layers = <<>> /\ part_pc = "idle"
    /\ edges = {} /\ nverts = 0 /\ vertex = 0 /\ bases = <<>>
    /\ meas_bases = <<>> /\ mb_pc = "idle"

\* TermData.add_single_expectation (termdata.py:55-57)
AddSingleExpectation ==
    /\ learning.pc \in {"term", "fitted"}
    /\ Len(learning.single_vals) < MaxSamples
    /\ \E expectation \in (-FitDen) .. FitDen :
         learning' = [learning EXCEPT !.single_vals = Append(@, expectation)]
    /\ UNCHANGED notLearningVars

\* term.fit() (termdata.py:98-106, called at layernoisedata.py:56-57)
SingleTermFit ==
    /\ learning.pc = "term"
    /\ \E outcome \in FitOutcomes :
         learning' = [learning EXCEPT
                        !.pc = "fitted",
                        !.term = fit(@, outcome),
                        !.warnings = IF outcome = <<>> THEN @ + 1 ELSE @]
    /\ UNCHANGED notLearningVars

\* term.fit_single() after the pair fit; without a single value line 84
\* divides by zero
FitSingle ==
    /\ learning.pc = "fitted"
    /\ learning' =
         IF learning.single_vals = <<>>
         THEN [learning EXCEPT !.pc = "raised", !.error = "ZeroDivisionError"]
         ELSE LET td == fit_single(learning.term, learning.single_vals) IN
              [learning EXCEPT
                 !.pc = "single",
                 !.term = td,
                 !.warnings = IF td.clamped THEN @ + 3 ELSE @]
    /\ UNCHANGED notLearningVars

SingleNext == AddSingleExpectation \/ SingleTermFit \/ FitSingle

SpecSingle == SingleInit /\ [][SingleNext]_vars

\* ================================== LayerNoiseData.add_expectation: the data
\* benchmarkinstance.py:11-12
SINGLE == 1
PAIR == 2

\* Pauli.simultaneous (pauli.py:38-39): other can be measured in the basis self
simultaneous(self, other) ==
    \A i \in DOMAIN self : self[i] = other[i] \/ other[i] = "I"

\* procspec.model_terms and procspec.meas_bases of two coupled qubits: the 15
\* non-identity Paulis and the 9 bases without identity
EdgeTerms == Paulis(2) \ {ID(2)}

EdgeBases == [1 .. 2 -> {"X", "Y", "Z"}]

\* LayerLearning._issingle (layerlearning.py:23-25)
IsSingleTerm(gate, term) ==
    conjugate(gate, term) # term /\ conjugate(gate, term) \in EdgeTerms

\* the instances LayerLearning.procedure makes (layerlearning.py:64-70); a
\* single basis is a member of a single-type pair unless _single_bases has
\* merged it with another
BenchmarkInstances(gate) ==
    {[type |-> PAIR, depth |-> d, prep_basis |-> b, meas_basis |-> b] :
        b \in EdgeBases, d \in 0 .. MaxDepth}
    \cup {[type |-> SINGLE, depth |-> SINGLE,
           prep_basis |-> conjugate(gate, b), meas_basis |-> b] :
             b \in {t \in EdgeTerms : IsSingleTerm(gate, t)}}

\* LayerNoiseData.sim_meas (layernoisedata.py:27-33)
sim_meas(gate, inst, pauli) ==
    LET pair == conjugate(gate, pauli) IN
    IF inst.type = SINGLE
    THEN {term \in EdgeTerms :
             simultaneous(pauli, term) /\ simultaneous(pair, conjugate(gate, term))}
    ELSE {term \in EdgeTerms : simultaneous(pauli, term)}

\* a dict as a function; d[key] = value
Put(d, key, value) == [x \in DOMAIN d \cup {key} |-> IF x = key THEN value ELSE d[x]]

\* the accumulators of a new TermData (termdata.py:36-40)
NoData == [expectations |-> <<>>, count |-> <<>>, single_vals |-> <<>>, single_count |-> 0]

\* TermData.add_expectation (termdata.py:50-53): type is not looked at
add_expectation(data, depth, expectation, type) ==
    [data EXCEPT
       !.expectations = Put(@, depth, Get(@, depth, 0) + expectation),
       !.count = Put(@, depth, Get(@, depth, 0) + 1)]

\* A LayerNoiseData as __init__ leaves it (layernoisedata.py:20-25) and the
\* instances whose results are about to be added, in some order
DataInit ==
    /\ processorspec = [pc |-> "idle"]
    /\ learning \in
         {[pc |-> "collect", cliff_layer |-> g, instances |-> is, k |-> 1,
           sim_measurements |-> <<>>, term_data |-> <<>>,
           added |-> <<>>, values |-> <<>>] :
              <<g, is>> \in UNION {{g} \X [1 .. 2 -> BenchmarkInstances(g)] : g \in Gates}}
    /\ experiment = [pc |-> "idle"]
    /\ models = <<>> /\ call = [op |-> "none"] /\ ovh_log = <<>>
    /\ per = [pc |-> "idle"] /\ bench = [pc |-> "idle"]
    /\ qc = <<>> /\ inst_list = <<>> /\ todo = <<>> /\ circ = <<>>
    /\ layer_qubits = {} /\ newlayer = <<>> /\ layers = <<>> /\ part_pc = "idle"
    /\ edges = {} /\ nverts = 0 /\ vertex = 0 /\ bases = <<>>
    /\ meas_bases = <<>> /\ mb_pc = "idle"

\* LayerNoiseData.add_expectation (layernoisedata.py:35-49) for the next
\* instance; get_expectation returns a value between -1 and 1, taken here
\* to be the same for every term of the instance; `added` and `values`
\* record the terms and the value of each call
AddExpectation ==
    /\ learning.pc = "collect"
    /\ learning.k <= Len(learning.instances)
    /\ \E expectation \in {-1, 1} :
         LET inst == learning.instances[learning.k]
             basis == inst.meas_basis
             sm == IF basis \in DOMAIN learning.sim_measurements
                   THEN learning.sim_measurements
                   ELSE Put(learning.sim_measurements, basis,
                            sim_meas(learning.cliff_layer, inst, basis))
             old == learning.term_data
         IN  learning' =
               [learning EXCEPT
                  !.k = @ + 1,
                  !.sim_measurements = sm,
                  !.term_data =
                     [t \in DOMAIN old \cup sm[basis] |->
                         IF t \in sm[basis]
                         THEN add_expectation(IF t \in DOMAIN old THEN old[t] ELSE NoData,
                                              inst.depth, expectation, inst.type)
                         ELSE old[t]],
                  !.added = Append(@, sm[basis]),
                  !.values = Append(@, expectation)]
    /\ UNCHANGED notLearningVars

DataNext == AddExpectation

SpecData == DataInit /\ [][DataNext]_vars

\* ========================================= LayerLearning._single_bases
\* Pauli.separate (pauli.py:41-42): the supports are disjoint
separate(self, other) ==
    \A i \in DOMAIN self : other[i] = "I" \/ self[i] = "I"

\* line 43: the basis against p1 and its conjugate against p2
SeparateFromPair(gate, pauli, p1, p2) ==
    separate(pauli, p1) /\ separate(conjugate(gate, pauli), p2)

\* lines 32-36: the set of the pairs {p, conjugate(p)} of the single terms
PairsSet(gate) ==
    {{p, conjugate(gate, p)} : p \in {t \in EdgeTerms : IsSingleTerm(gate, t)}}

\* the layers of one gate that is its own inverse (percircuit.py:38-39)
SelfAdjointGates ==
    {g \in Gates : \A p \in EdgeTerms : conjugate(g, conjugate(g, p)) = p}

\* lines 41-47 for the pair (p1, p2), from the i-th basis on
RECURSIVE MergeSingle(_, _, _, _, _)
MergeSingle(gate, single_bases, p1, p2, i) ==
    IF i > Len(single_bases) THEN Append(single_bases, p2)
    ELSE IF SeparateFromPair(gate, single_bases[i], p1, p2)
         THEN [single_bases EXCEPT ![i] = Mul(single_bases[i], p2)]
         ELSE MergeSingle(gate, single_bases, p1, p2, i + 1)

\* A LayerLearning over two coupled qubits as __init__ leaves it (lines
\* 13-20), at the call of _single_bases, with the pairs_set of line 36;
\* `rest` holds the pairs the loop of line 40 has still to visit
SingleBasesInit ==
    /\ processorspec = [pc |-> "idle"]
    /\ learning \in
         {[pc |-> "single_bases", cliff_layer |-> g, pairs_set |-> PairsSet(g),
           rest |-> PairsSet(g), single_bases |-> <<>>] : g \in SelfAdjointGates}
    /\ experiment = [pc |-> "idle"]
    /\ models = <<>> /\ call = [op |-> "none"] /\ ovh_log = <<>>
    /\ per = [pc |-> "idle"] /\ bench = [pc |-> "idle"]
    /\ qc = <<>> /\ inst_list = <<>> /\ todo = <<>> /\ circ = <<>>
    /\ layer_qubits = {} /\ newlayer = <<>> /\ layers = <<>> /\ part_pc = "idle"
    /\ edges = {} /\ nverts = 0 /\ vertex = 0 /\ bases = <<>>
    /\ meas_bases = <<>> /\ mb_pc = "idle"

\* lines 37-47: one iteration of the loop over single_pairs; the list is made
\* from a set of frozensets, so that the pairs come in any order and each
\* pair with either member first
SingleBasesStep ==
    /\ learning.pc = "single_bases"
    /\ \E pair \in learning.rest : \E p1 \in pair, p2 \in pair :
         /\ pair = {p1, p2}
         /\ learning' =
              [learning EXCEPT
                 !.rest = @ \ {pair},
                 !.single_bases = MergeSingle(learning.cliff_layer, @, p1, p2, 1)]
    /\ UNCHANGED notLearningVars

\* line 49
SingleBasesReturn ==
    /\ learning.pc = "single_bases"
    /\ learning.rest = {}
    /\ learning' = [learning EXCEPT !.pc = "single_done"]
    /\ UNCHANGED notLearningVars

SingleBasesNext == SingleBasesStep \/ SingleBasesReturn

SpecSingleBases == SingleBasesInit /\ [][SingleBasesNext]_vars

\* ====================================== PERExperiment.get_meas_bases
\* QiskitPauli.to_label and QiskitPauli(label): the label lists the qubits
\* from the last to the first
to_label(pauli) == [i \in DOMAIN pauli |-> pauli[Len(pauli) + 1 - i]]

FromLabel(label) == [q \in DOMAIN label |-> label[Len(label) + 1 - q]]

\* Pauli.nonoverlapping (pauli.py:44-45)
AlwaysNonoverlapping(self, other) == TRUE

nonoverlapping(self, other) ==
    \A i \in DOMAIN self : self[i] = other[i] \/ self[i] = "I" \/ other[i] = "I"

\* Pauli.get_composite (pauli.py:53-62)
get_composite(self, other) ==
    LET label1 == to_label(self)
        label2 == to_label(other)
    IN  FromLabel([i \in DOMAIN label1 |->
                      IF label1[i] = "I" THEN label2[i] ELSE label1[i]])

\* the call get_meas_bases(expectations) (perexperiment.py:55-62)
MeasInit ==
    /\ processorspec = [pc |-> "idle"]
    /\ experiment \in
         {[pc |-> "bases", expectations |-> es, k |-> 1, meas_bases |-> <<>>,
           data |-> {}] :
              es \in UNION {[1 .. n -> Paulis(2)] : n \in 1 .. MaxExpectations}}
    /\ learning = [pc |-> "idle"]
    /\ models = <<>> /\ call = [op |-> "none"] /\ ovh_log = <<>>
    /\ per = [pc |-> "idle"] /\ bench = [pc |-> "idle"]
    /\ qc = <<>> /\ inst_list = <<>> /\ todo = <<>> /\ circ = <<>>
    /\ layer_qubits = {} /\ newlayer = <<>> /\ layers = <<>> /\ part_pc = "idle"
    /\ edges = {} /\ nverts = 0 /\ vertex = 0 /\ bases = <<>>
    /\ meas_bases = <<>> /\ mb_pc = "idle"

\* one iteration of `for pauli in expectations` (perexperiment.py:64-70)
MergeExpectation ==
    /\ experiment.pc = "bases"
    /\ experiment.k <= Len(experiment.expectations)
    /\ LET pauli == experiment.expectations[experiment.k]
           bs == experiment.meas_bases
           hits == {i \in DOMAIN bs : nonoverlapping(bs[i], pauli)}
       IN  experiment' =
              [experiment EXCEPT
                 !.k = @ + 1,
                 !.meas_bases =
                    IF hits = {} THEN Append(bs, pauli)
                    ELSE LET i == CHOOSE i \in hits : \A j \in hits : i <= j
                         IN  [bs EXCEPT ![i] = get_composite(bs[i], pauli)]]
    /\ UNCHANGED notExpVars

\* perexperiment.py:72 and PERRun.analyze (perrun.py:38-56): a PERRun has
\* instances for every basis, and an expectation gets data from the
\* instances whose basis is simultaneous with it
Analyze ==
    /\ experiment.pc = "bases"
    /\ experiment.k > Len(experiment.expectations)
    /\ experiment' =
          [experiment EXCEPT
             !.pc = "analyzed",
             !.data = {pauli \in Range(experiment.expectations) :
                          \E i \in DOMAIN experiment.meas_bases :
                             simultaneous(experiment.meas_bases[i], pauli)}]
    /\ UNCHANGED notExpVars

MeasNext == MergeExpectation \/ Analyze

SpecMeasBases == MeasInit /\ [][MeasNext]_vars

\* ================================================================ claims
\* ---- C1: in every CircuitLayer returned by _circuit_to_benchmark_layers
\* the two-qubit (cliff_layer) instructions have pairwise disjoint supports.
C1_CliffDisjoint ==
    \A k \in DOMAIN layers :
        \A i, j \in DOMAIN layers[k].cliff_layer :
            i # j => support(layers[k].cliff_layer[i])
                       \cap support(layers[k].cliff_layer[j]) = {}

\* a returned layer that holds two two-qubit gates
C1_Witness ==
    /\ part_pc = "done"
    /\ \E k \in DOMAIN layers : Len(layers[k].cliff_layer) >= 2

\* ---- C2: for every layer circuit a CircuitLayer is built from, the
\* instructions of single_layer together with those of cliff_layer are, as a
\* set, exactly the instructions of the layer circuit.
Reconstructs(L) == Range(L.single_layer) \cup Range(L.cliff_layer) = Range(L.layer)

C2_LayerReconstructed ==
    /\ \A k \in DOMAIN newlayer : Reconstructs(newlayer[k])
    /\ \A k \in DOMAIN layers : Reconstructs(layers[k])
\* ---- C3: for every connectivity graph in which each vertex has at most 2
\* lower-indexed neighbours, _meas_bases returns exactly 9 bases, and for
\* every edge (u,v) the 9 label pairs at (u,v) are all 9 combinations of
\* {X,Y,Z} x {X,Y,Z}.
XYZ == {"X", "Y", "Z"}

Covered(u, v) ==
    {<<PauliAt(meas_bases[i], u), PauliAt(meas_bases[i], v)>> :
        i \in DOMAIN meas_bases} = XYZ \X XYZ

AtMostTwoPredecessors ==
    \A v \in 0 .. (nverts - 1) : Cardinality(Predecessors(v)) <= 2

C3_BasesCoverEdges ==
    (mb_pc # "idle" /\ AtMostTwoPredecessors) =>
        /\ mb_pc \in {"loop", "done"}
        /\ mb_pc = "done" =>
             /\ Len(meas_bases) = 9
             /\ \A u, v \in 0 .. (nverts - 1) : {u, v} \in edges /\ u < v => Covered(u, v)
\* ---- C4 (as stated): after init_scaling(0), for any learned coefficients,
\* every term's firing probability is 0, every sample() returns the identity
\* with sign 0, and the overhead is exactly 1.
ProbIsZero(prob) == prob[1] = 0

C4_StrengthZeroIsIdentity ==
    \A m \in DOMAIN models :
        (models[m].inited /\ models[m].scaled = 0) =>
            /\ \A k \in DOMAIN models[m].probs : ProbIsZero(models[m].probs[k][2])
            /\ models[m].overhead = 1
            /\ (call.op = "sample" /\ call.ok) =>
                   (call.operator = ID(NumPauliQubits) /\ call.sgn = 0)

RECURSIVE SumPositive(_, _)
\* the sum of the positive entries of a sequence of integers, from k on
SumPositive(xs, k) ==
    IF k > Len(xs) THEN 0
    ELSE (IF xs[k] > 0 THEN xs[k] ELSE 0) + SumPositive(xs, k + 1)

Lambda(m) == [k \in DOMAIN models[m].coeffs |-> models[m].coeffs[k][2]]

\* ---- C4 (amended): after init_scaling(0) the target is zero noise, so term
\* k fires with probability (1 - exp(-2|lambda_k|))/2, which is 0 only for
\* lambda_k = 0, its sign bit is 1 exactly when lambda_k > 0, and the
\* overhead is the product of exp(2 lambda_k) over the terms with
\* lambda_k > 0; all probabilities are 0, every sample() is the identity with
\* sign 0 and the overhead is exactly 1 only when no learned coefficient
\* differs from 0 (is positive, for the overhead).
C4_StrengthZeroCancelsAll ==
    \A m \in DOMAIN models :
        (models[m].inited /\ models[m].scaled = 0) =>
            /\ \A k \in DOMAIN models[m].probs :
                 LET prob == models[m].probs[k][2]
                     lambdak == Lambda(m)[k]
                 IN  /\ (prob[2] - 2 * prob[1]) * Pow2(Abs(lambdak)) = prob[2]
                     /\ ProbIsZero(prob) <=> lambdak = 0
                     /\ models[m].probs[k][3] = 1 <=> lambdak > 0
            /\ models[m].overhead = Pow2(SumPositive(Lambda(m), 1))
            /\ (\A k \in DOMAIN Lambda(m) : Lambda(m)[k] = 0) =>
                 /\ models[m].overhead = 1
                 /\ (call.op = "sample" /\ call.ok) =>
                        (call.operator = ID(NumPauliQubits) /\ call.sgn = 0)

\* a sample drawn at strength 0 that is not the identity and has sign 1
C4_Witness ==
    /\ models[1].inited /\ models[1].scaled = 0
    /\ models[1].overhead > 1
    /\ call.op = "sample" /\ call.ok
    /\ call.operator # ID(NumPauliQubits) /\ call.sgn = 1

\* ---- C5: after init_scaling(1), for any learned coefficients, all firing
\* probabilities are 0 and the overhead is exactly 1.
C5_StrengthOneIsNeutral ==
    \A m \in DOMAIN models :
        (models[m].inited /\ models[m].scaled = StrengthDen) =>
            /\ \A k \in DOMAIN models[m].probs : ProbIsZero(models[m].probs[k][2])
            /\ models[m].overhead = 1

\* init_scaling(1) has run on a model with a non-zero learned rate
C5_Witness ==
    /\ call.op = "init_scaling" /\ call.strength = StrengthDen
    /\ models[1].inited /\ models[1].scaled = StrengthDen
    /\ \E k \in DOMAIN Lambda(1) : Lambda(1)[k] > 0
    /\ \E k \in DOMAIN Lambda(1) : Lambda(1)[k] < 0

\* ---- C6: with non-negative learned rates the overhead derived by
\* init_scaling is non-decreasing as the strength moves away from 1: for
\* s1 <= s2 <= 1, overhead(s1) >= overhead(s2), and for 1 <= s2 <= s1,
\* overhead(s1) >= overhead(s2).
NonNegativeRates(m) == \A k \in DOMAIN Lambda(m) : Lambda(m)[k] >= 0

AwayFromOne(a, b) ==
    /\ (a[1] <= b[1] /\ b[1] <= StrengthDen) => a[2] >= b[2]
    /\ (StrengthDen <= b[1] /\ b[1] <= a[1]) => a[2] >= b[2]

C6_OverheadMonotone ==
    (Len(ovh_log) = 2 /\ NonNegativeRates(1)) =>
        AwayFromOne(ovh_log[1], ovh_log[2]) /\ AwayFromOne(ovh_log[2], ovh_log[1])

\* two strengths below 1 whose overheads differ, and two above 1
C6_Witness ==
    /\ Len(ovh_log) = 2 /\ NonNegativeRates(1)
    /\ ovh_log[1][1] < ovh_log[2][1] /\ ovh_log[2][1] < StrengthDen
    /\ ovh_log[1][2] > ovh_log[2][2] /\ ovh_log[2][2] > 1

\* ---- C7: in every tuning call each learned term k gets sign bit 1 iff its
\* target rate is strictly below its learned rate; the overhead is the
\* product of the per-term factors exp(2(lambda_k - phi_k)) over those
\* suppressed terms only, and exactly 1 when no term is suppressed.
Suppression(m) ==
    [k \in DOMAIN models[m].coeffs |-> Lambda(m)[k] - models[m].targets[k]]

C7_SignAndOverhead ==
    \A m \in DOMAIN models :
        models[m].inited =>
            /\ \A k \in DOMAIN models[m].probs :
                 models[m].probs[k][3] = 1 <=> models[m].targets[k] < Lambda(m)[k]
            /\ models[m].overhead = Pow2(SumPositive(Suppression(m), 1))
            /\ (\A k \in DOMAIN models[m].probs : models[m].targets[k] >= Lambda(m)[k])
                   => models[m].overhead = 1

\* a tuning call with a suppressed term, an amplified term, or an unchanged one
C7_Witness ==
    /\ call.op = "_init_tuning" /\ call.ok
    /\ \E k \in DOMAIN Lambda(1) : models[1].targets[k] < Lambda(1)[k]
    /\ \E k \in DOMAIN Lambda(1) : models[1].targets[k] >= Lambda(1)[k]
    /\ models[1].overhead > 1

\* ---- C10: after construction no sequence of init_scaling, _init_tuning,
\* sample and PERCircuit.overhead calls changes the stored (term, coefficient)
\* list of a NoiseModel.
C10_CoeffsNeverChange ==
    [][\A m \in DOMAIN models : models'[m].coeffs = models[m].coeffs]_vars

\* a PERCircuit.overhead call after which the model holds a distribution
C10_Witness ==
    /\ call.op = "overhead" /\ call.overhead > 1
    /\ models[1].inited /\ models[1].overhead > 1

RECURSIVE XorAll(_)
XorAll(xs) == IF xs = <<>> THEN 0 ELSE (Head(xs) + XorAll(Tail(xs))) % 2

RECURSIVE LayerOverheads(_, _)
\* the product, over the first n layers, of the overhead that init_scaling
\* derives for the layer's noise model at strength sNum
LayerOverheads(n, sNum) ==
    IF n = 0 THEN 1
    ELSE init_scaling(models[per.layers[n]], sNum).overhead * LayerOverheads(n - 1, sNum)

\* ---- C8: for every PERInstance, sgn_tot is the XOR of the signs returned by
\* the per-layer samples in layer order, overhead is the product over the
\* layers of the overhead derived for the layer's noise model at the
\* instance's own noise_strength, and get_adjusted_expectation returns the
\* raw expectation times overhead * (-1)^sgn_tot.
C8_SignOverheadBookkeeping ==
    per.pc \in {"sampling", "built", "adjusted"} =>
        /\ Len(per.inst.sgns) = per.inst.k - 1
        /\ per.inst.sgn_tot = XorAll(per.inst.sgns)
        /\ per.inst.overhead = LayerOverheads(per.inst.k - 1, per.inst.noise_strength)
        /\ per.pc # "sampling" => per.inst.k = Len(per.layers) + 1
        /\ per.pc = "adjusted" =>
             per.inst.adjusted =
                 (IF per.inst.sgn_tot = 1 THEN -1 ELSE 1)
                     * (per.inst.expec * per.inst.overhead)

\* an instance of three layers, two of them with sign 1, whose overhead is
\* above 1 and whose adjusted expectation differs from the raw one
C8_Witness ==
    /\ per.pc = "adjusted"
    /\ Len(per.layers) = 3
    /\ per.inst.sgns = <<1, 0, 1>>
    /\ per.inst.overhead > 1
    /\ per.inst.expec # 0
    /\ models[1].overhead # models[2].overhead

RECURSIVE Ideal(_, _)
\* The noise-free operator of a list of circuit operations on a layer of the
\* given gate, as <<P, k>>: the Pauli P applied after k applications of the
\* layer, up to a global phase.
Ideal(gate, ops) ==
    IF ops = <<>> THEN <<ID(2), 0>>
    ELSE LET before == Ideal(gate, SubSeq(ops, 1, Len(ops) - 1))
             op == ops[Len(ops)]
         IN  CASE op[1] = "pauli"      -> <<Mul(op[2], before[1]), before[2]>>
               [] op[1] = "cliff_layer" -> <<Propagate(gate, before[1]), before[2] + 1>>
               [] OTHER                 -> before

\* the operations between the preparation basis change and the end of the
\* repetitions made so far, and the same with the closing frame
Repetitions == SubSeq(bench.circ, 2, 3 * bench.i + 1)
Framed == SubSeq(bench.circ, 2, 3 * bench.depth + 2)

\* ---- C9: in a BenchmarkInstance, for every depth and every sequence of
\* twirls, after each repetition the running frame is the product of the
\* twirls inserted so far propagated through the Clifford layers, and with the
\* closing frame the operator between the two basis changes is depth
\* applications of the Clifford layer up to a global phase.
C9_ClosingFrameCancelsTwirls ==
    /\ bench.pc = "loop" =>
         Ideal(bench.cliff_layer, Repetitions) = <<bench.pauli_frame, bench.i>>
    /\ bench.pc \in {"framed", "done"} =>
         Ideal(bench.cliff_layer, Framed) = <<ID(2), bench.depth>>

\* a finished instance on a dcx layer whose closing frame leaves a Pauli behind
C9_Witness ==
    /\ bench.pc = "done"
    /\ bench.cliff_layer = "dcx"
    /\ bench.depth = 2
    /\ Ideal(bench.cliff_layer, Framed)[1] # ID(2)

\* ---- C11: when two PERInstances of different noise strengths are generated
\* with their steps interleaved over the same NoiseModel objects, each one
\* samples every layer from the distribution derived for its own noise
\* strength and records the overhead of its own noise strength.
C11_InstancesDoNotInterfere ==
    per.pc = "interleaved" =>
        \A g \in Generators :
            LET inst == per.insts[g] IN
            /\ \A j \in DOMAIN inst.dists :
                 inst.dists[j] =
                     init_scaling(models[per.layers[j]], inst.noise_strength).probs
            /\ inst.overhead = LayerOverheads(inst.k - 1, inst.noise_strength)

\* an instance built at strength 0 over a model with a positive rate that
\* sampled from the distribution of the other instance's strength
C11_Witness ==
    /\ per.pc = "interleaved"
    /\ per.insts[1].pc = "built" /\ per.insts[2].pc = "built"
    /\ per.insts[1].noise_strength = 0
    /\ per.insts[1].dists[1] #
           init_scaling(models[per.layers[1]], 0).probs

\* ---- C12: each call of run(executor) invokes the executor exactly once, after
\* generation, with the circuits of all instances in generation order; no
\* result is attached before the executor returns, and the i-th returned
\* result is attached to the i-th instance.
C12_RunCallsExecutorOnce ==
    experiment.pc # "idle" =>
        LET e == experiment
            ids == [j \in DOMAIN e.instances |-> e.instances[j].id]
        IN  /\ e.pc = "ready" => Len(e.calls) = e.runs
            /\ e.pc = "collected" => Len(e.calls) = e.runs - 1
            /\ e.pc = "executed" => Len(e.calls) = e.runs /\ e.calls[e.runs] = ids
            /\ \A j \in DOMAIN e.instances : \A res \in e.instances[j].result :
                 /\ res[2] = j
                 /\ res[1] <= Len(e.calls)
                 /\ e.pc \in {"collected", "executed"} => res[1] < e.runs
            /\ e.pc = "ready" /\ e.last = "run" /\ e.error = "none" =>
                 \A j \in DOMAIN e.results : e.results[j] \in e.instances[j].result

\* a run call on a tomography experiment without profiles that has ended
\* without an executor call
C12_Witness ==
    /\ experiment.pc = "ready"
    /\ experiment.kind = "tomography"
    /\ experiment.last = "run"
    /\ experiment.error = "UnboundLocalError"
    /\ Len(experiment.calls) < experiment.runs

\* ---- C13: when the commutation matrix M1+M2 that nnls_fit builds does not
\* have rank |F1|, nnls_fit raises before the NNLS solve and no NoiseModel is
\* created or assigned for the layer.
C13_RankDeficiencyIsFatal ==
    (/\ learning.pc \in {"done", "raised"}
     /\ matrix_rank(CommutationMatrix(learning.term_data)) # Len(learning.term_data))
        => /\ learning.pc = "raised"
           /\ learning.error = "Exception"
           /\ learning.solves = 0
           /\ learning.noisemodel = <<>>

\* nnls_fit has raised on the rank-deficient matrix of two terms that the
\* layer maps to each other
C13_Witness ==
    /\ learning.pc = "raised"
    /\ Len(learning.term_data) = 2
    /\ issingle(learning.term_data, 1)
    /\ matrix_rank(CommutationMatrix(learning.term_data)) < 2
    /\ learning.noisemodel = <<>>

\* ---- C14: TermData.fit never raises: when the exponential fit of a term
\* fails, the term's fidelity is set to 1 with a warning, and fit_noise_model
\* goes on to fit every remaining term and to run the NNLS reconstruction.
C14_FitFailureIsRecovered ==
    learning.pc \in {"fitting", "done", "raised"} =>
        LET td == learning.term_data
            failed == {j \in DOMAIN td : td[j].fitted /\ ~td[j].converged}
        IN  /\ \A j \in DOMAIN td : td[j].fitted <=> j < learning.k
            /\ \A j \in failed : td[j].fidelity = One
            /\ learning.warnings = Cardinality(failed)
            /\ learning.pc = "fitting" => learning.error = "none"
            /\ learning.pc \in {"done", "raised"} =>
                 /\ \A j \in DOMAIN td : td[j].fitted
                 /\ learning.error = "none" <=> ~RankDeficient(td)
                 /\ learning.error = "none" =>
                      /\ learning.solves = 1
                      /\ learning.noisemodel # <<>>
                      /\ learning.noisemodel[1].nnls[2]
                             = [j \in DOMAIN td |-> td[j].fidelity]

\* the fit of the first of two terms failed, the second was fitted and the
\* NNLS reconstruction has produced the NoiseModel
C14_Witness ==
    /\ learning.pc = "done"
    /\ Len(learning.term_data) = 2
    /\ ~learning.term_data[1].converged
    /\ learning.term_data[2].converged
    /\ learning.term_data[2].fidelity # One
    /\ learning.noisemodel # <<>>

\* ---- C15: a generate call with fewer than 2 depths (tomography) or fewer
\* than 2 noise strengths (PER) raises a fatal error before any instance is
\* generated and leaves the experiment's instance list unchanged.
C15_TooFewPointsIsFatal ==
    (experiment.pc # "idle" /\ experiment.last = "generate" /\ experiment.points < 2)
        => /\ experiment.error # "none"
           /\ experiment.instances = experiment.before

\* a PER generate call with one noise strength that has returned normally
\* with new instances
C15_Witness ==
    /\ experiment.pc = "ready"
    /\ experiment.kind = "per"
    /\ experiment.last = "generate"
    /\ experiment.points = 1
    /\ experiment.error = "none"
    /\ experiment.instances # <<>>
    /\ experiment.instances # experiment.before

\* the two-qubit instructions of a layer circuit, whatever their order and
\* whatever one-qubit gates stand between them
TwoQubitInsts(layer) == {layer[k] : k \in {j \in DOMAIN layer : weight(layer[j]) = 2}}

\* ---- C16: two CircuitLayers are equal iff their cliff_layer instruction
\* sets are equal as unordered sets, whatever the order and the one-qubit
\* gates; equal layers have equal hashes; layers with the same Clifford
\* instructions are benchmarked once and get the same NoiseModel from
\* add_noise_models.
C16_LayerEqualityAndProfiles ==
    experiment.pc \in {"profiling", "assigning", "assigned", "raised"} =>
        LET e == experiment
            same(a, b) == TwoQubitInsts(a.layer) = TwoQubitInsts(b.layer)
        IN  /\ \A a, b \in Range(e.layers) :
                 /\ LayerEq(a, b) <=> same(a, b)
                 /\ LayerEq(a, b) => LayerHash(a) = LayerHash(b)
            /\ \A j, k \in DOMAIN e.profiles :
                 j # k => frozenset(e.profiles[j]) # frozenset(e.profiles[k])
            /\ \A j \in 1 .. Len(e.layers) :
                 (e.pc # "profiling" \/ j < e.i) =>
                     Cardinality({k \in DOMAIN e.profiles :
                         frozenset(e.profiles[k]) = TwoQubitInsts(e.layers[j].layer)}) = 1
            /\ e.pc # "raised"
            /\ \A j, k \in DOMAIN e.assigned :
                 same(e.layers[j], e.layers[k]) <=> e.assigned[j] = e.assigned[k]

\* two layers with the same two-qubit gates in different orders, one of them
\* with a one-qubit gate, share one profile and one NoiseModel
C16_Witness ==
    /\ experiment.pc = "assigned"
    /\ Len(experiment.layers) = 2
    /\ Len(experiment.layers[1].cliff_layer) = 2
    /\ experiment.layers[1].cliff_layer # experiment.layers[2].cliff_layer
    /\ experiment.layers[1].single_layer # experiment.layers[2].single_layer
    /\ Len(experiment.profiles) = 1
    /\ experiment.assigned = <<1, 1>>

\* ---- C17: for every connectivity graph _model_terms returns, without
\* duplicates, exactly the non-identity Pauli strings of weight at most 2
\* whose support lies on some edge of the graph.
C17_ModelTermsCoverEdges ==
    processorspec.pc \in {"loop", "returned", "raised"} =>
        LET qubits == 0 .. (nverts - 1)
            supp(P) == {q \in qubits : P[q] # "I"}
            expected == {P \in [qubits -> Labels] :
                            /\ supp(P) # {}
                            /\ Cardinality(supp(P)) <= 2
                            /\ \E e \in edges : supp(P) \subseteq e}
        IN  /\ processorspec.pc # "raised"
            /\ processorspec.pc = "returned" =>
                  /\ processorspec.model_terms = expected
                  /\ processorspec.len = Cardinality(expected)

\* a graph without edges: model_terms.remove raises
C17_Witness ==
    /\ processorspec.pc = "raised"
    /\ processorspec.error = "KeyError"
    /\ edges = {}
    /\ processorspec.model_terms = {}

\* the qubits of the two-qubit instructions of a list
TwoQubitSupport(c) == UNION {support(c[k]) : k \in {j \in DOMAIN c : weight(c[j]) = 2}}

\* the instructions the running sweep has looked at and left in inst_list:
\* inst_list is these followed by what the sweep has still to look at
LeftBehind == SubSeq(inst_list, 1, Len(inst_list) - Len(todo))

\* the qubits of the two-qubit instructions the running sweep has looked
\* at, placed in the layer or left behind
LookedAt == TwoQubitSupport(circ) \cup TwoQubitSupport(LeftBehind)

SelfAdjoint == {"cx", "cx_rev", "cz", "swap"}

\* ---- C19: in CircuitLayer.sample, for every twirl P and a self-adjoint
\* Clifford layer C, the twirl before the layer and the conjugated twirl
\* after it cancel, conjugate(P) * C * P = C up to phase; when the sampled
\* noise operator is the identity the ideal effect of what sample appended
\* is single_layer followed by cliff_layer.
C19_TwirlCancelsThroughLayer ==
    (per.pc = "sampled" /\ per.cliff_layer \in SelfAdjoint) =>
        /\ per.circ[6] = <<"pauli", conjugate(per.cliff_layer, per.twirl)>>
        /\ Mul(per.circ[6][2], Propagate(per.cliff_layer, per.circ[2][2]))
              = ID(num_qubits(per.cliff_layer))
        /\ per.op = ID(num_qubits(per.cliff_layer)) =>
              /\ per.circ[1] = <<"single_layer">>
              /\ Ideal(per.cliff_layer, Tail(per.circ))
                    = <<ID(num_qubits(per.cliff_layer)), 1>>

\* a twirl that the layer changes, sampled with the identity noise operator
C19_Witness ==
    /\ per.pc = "sampled"
    /\ per.cliff_layer \in SelfAdjoint
    /\ per.op = ID(num_qubits(per.cliff_layer))
    /\ per.twirl # ID(num_qubits(per.cliff_layer))
    /\ conjugate(per.cliff_layer, per.twirl) # per.twirl

\* ---- C20 (as stated): after TermData.fit_single the stored single
\* fidelity never exceeds the square of the paired fidelity: an estimate
\* above it is clamped down to it with a warning, an estimate at or below it
\* is kept.
C20_SingleFidelityAtMostSquare ==
    learning.pc = "single" =>
        LET td == learning.term
            bound == Square(td.pair_fidelity)
        IN  /\ ~FracLess(bound, td.single_fidelity)
            /\ FracLess(bound, td.estimate) =>
                  (td.single_fidelity = bound /\ td.clamped)
            /\ ~FracLess(bound, td.estimate) =>
                  (td.single_fidelity = td.estimate /\ ~td.clamped)

\* ---- C20 (amended): after TermData.fit_single the stored single fidelity
\* is never below the square of the paired fidelity: an estimate below it is
\* raised to it with a warning, an estimate at or above it is kept, also
\* when it is above 1; the term's fidelity is the single fidelity.
C20_SingleFidelityAtLeastSquare ==
    learning.pc = "single" =>
        LET td == learning.term
            bound == Square(td.pair_fidelity)
            fitWarnings == IF td.converged THEN 0 ELSE 1
        IN  /\ ~FracLess(td.single_fidelity, bound)
            /\ FracLess(td.estimate, bound) =>
                  (td.single_fidelity = bound /\ learning.warnings = fitWarnings + 3)
            /\ ~FracLess(td.estimate, bound) =>
                  (td.single_fidelity = td.estimate /\ learning.warnings = fitWarnings)
            /\ td.fidelity = td.single_fidelity

\* an estimate above the squared pair fidelity, here above 1, was kept
C20_Witness ==
    /\ learning.pc = "single"
    /\ FracLess(Square(learning.term.pair_fidelity), learning.term.estimate)
    /\ FracLess(One, learning.term.single_fidelity)

\* the second predecessor's label sequence when the table lookup starts
\* (lines 51-53), for the order pred0, pred1 of the two predecessors
SecondSequence(pred0, pred1) ==
    LET sorted == SortedByPred(bases, pred0)
    IN  [i \in 1 .. NUM_BASES |-> sorted[i][pred1 + 1]]

\* some relabeling of the sequence by a permutation of X, Y, Z is a table key
SomeRelabelingIsKey(substr) ==
    \E k \in DOMAIN Perms : Relabel(Perms[k], substr) \in DOMAIN orderings

\* the step handles a vertex with the two predecessors pred0, pred1 in this
\* order, and the second predecessor has its labels
TwoPredStep(pred0, pred1) ==
    /\ mb_pc = "loop" /\ vertex < nverts
    /\ mb_pc' = "loop" /\ vertex' = vertex + 1
    /\ pred0 # pred1
    /\ Predecessors(vertex) = {pred0, pred1}
    /\ "I" \notin Range(SecondSequence(pred0, pred1))
    /\ \A i \in 1 .. NUM_BASES : \A q \in 1 .. vertex :
          bases'[i][q] = SortedByPred(bases, pred0)[i][q]

\* the vertex's labels after the step are those of the table entry found
\* last among the strings compared, and none when nothing was found
LabelsFollow(compared) ==
    LET last == compared[Len(compared)] IN
    /\ last \in DOMAIN orderings =>
          \A i \in 1 .. NUM_BASES : bases'[i][vertex + 1] = orderings[last][i]
    /\ last \notin DOMAIN orderings =>
          \A i \in 1 .. NUM_BASES : bases'[i][vertex + 1] = "I"

Accumulated ==
    << <<"X","Y","Z">>, <<"X","Z","Y">>, <<"Y","Z","X">>,
       <<"X","Y","Z">>, <<"Y","Z","X">>, <<"Y","X","Z">> >>

Substitute(map, substr) ==
    [i \in DOMAIN substr |->
        map[CHOOSE k \in 1 .. 3 : <<"X", "Y", "Z">>[k] = substr[i]]]

Anticommute(a, b) == ~commutes(a, b)

Symmetric(M) == \A i, j \in DOMAIN M : M[i][j] = M[j][i]

ZeroOne(M) == \A i, j \in DOMAIN M : M[i][j] \in {0, 1}

\* ---- C22 (as stated): the matrices built by nnls_fit are both symmetric
\* 0/1 matrices, M1[i][j] = 1 exactly when F1[i] anticommutes with F1[j] and
\* M2[i][j] = 1 exactly when F1[i] anticommutes with F2[j], for every set of
\* measured terms and every Clifford layer.
C22_BothMatricesSymmetric ==
    learning.pc \in {"done", "raised"} /\ "term_data" \in DOMAIN learning =>
        LET td == learning.term_data
            f1 == F1(td)
            f2 == F2(td)
        IN  /\ ZeroOne(M1(td)) /\ ZeroOne(M2(td))
            /\ Symmetric(M1(td)) /\ Symmetric(M2(td))
            /\ \A i, j \in DOMAIN td :
                  /\ M1(td)[i][j] = 1 <=> Anticommute(f1[i], f1[j])
                  /\ M2(td)[i][j] = 1 <=> Anticommute(f1[i], f2[j])

\* ---- C22 (amended): M1 is a symmetric 0/1 matrix with M1[i][j] = 1
\* exactly when F1[i] anticommutes with F1[j]; M2 is a 0/1 matrix with
\* M2[i][j] = 1 exactly when F2[i] anticommutes with F1[j] (its rows follow
\* F2, its columns F1), and it is not symmetric in general; the matrix of
\* the least-squares problem is their sum.
C22_RowsFollowF2 ==
    learning.pc \in {"done", "raised"} /\ "term_data" \in DOMAIN learning =>
        LET td == learning.term_data
            f1 == F1(td)
            f2 == F2(td)
        IN  /\ ZeroOne(M1(td)) /\ ZeroOne(M2(td))
            /\ Symmetric(M1(td))
            /\ \A i, j \in DOMAIN td :
                  /\ M1(td)[i][j] = 1 <=> Anticommute(f1[i], f1[j])
                  /\ M2(td)[i][j] = 1 <=> Anticommute(f2[i], f1[j])
            /\ learning.pc = "done" =>
                  \A i, j \in DOMAIN td :
                     learning.noisemodel[1].nnls[1][i][j]
                        = (IF Anticommute(f1[i], f1[j]) THEN 1 ELSE 0)
                          + (IF Anticommute(f2[i], f1[j]) THEN 1 ELSE 0)

\* a fit was made from a matrix M2 that is not symmetric
C22_Witness ==
    /\ learning.pc = "done"
    /\ "term_data" \in DOMAIN learning
    /\ ~Symmetric(M2(learning.term_data))

\* the calls made so far for instances of a type that reached the term
CallsOf(type, term) ==
    {j \in DOMAIN learning.added :
        learning.instances[j].type = type /\ term \in learning.added[j]}

\* ---- C23: expectation values coming from SINGLE-type instances are
\* accumulated in the term's separate single-depth accumulator and never
\* change the depth-keyed sums and counts that the decay fit consumes.
C23_SinglesKeptApart ==
    (learning.pc = "collect" /\ "added" \in DOMAIN learning) =>
        \A term \in DOMAIN learning.term_data :
           LET data == learning.term_data[term] IN
           /\ data.single_count = Cardinality(CallsOf(SINGLE, term))
           /\ \A d \in 0 .. MaxDepth :
                 Get(data.count, d, 0) =
                    Cardinality({j \in CallsOf(PAIR, term) :
                                    learning.instances[j].depth = d})

\* the value of a SINGLE instance has been added to the sums of depth 1
C23_Witness ==
    /\ learning.pc = "collect" /\ "added" \in DOMAIN learning
    /\ \E term \in DOMAIN learning.term_data :
          /\ CallsOf(SINGLE, term) # {}
          /\ CallsOf(PAIR, term) = {}
          /\ learning.term_data[term].single_count = 0
          /\ Get(learning.term_data[term].count, SINGLE, 0) > 0

\* ---- C30: every BenchmarkInstance contributes to exactly the terms
\* sim_meas returns for that instance's own type, in any order of the
\* instances: a SINGLE instance never contributes to a term t unless t is
\* simultaneous with its measurement basis and conjugate(t) with its
\* preparation basis, even after a PAIR instance with the same measurement
\* basis.
C30_ContributesToOwnTerms ==
    (learning.pc = "collect" /\ "added" \in DOMAIN learning) =>
        \A j \in DOMAIN learning.added :
           LET inst == learning.instances[j] IN
           /\ learning.added[j] =
                 sim_meas(learning.cliff_layer, inst, inst.meas_basis)
           /\ inst.type = SINGLE =>
                 \A t \in learning.added[j] :
                    /\ simultaneous(inst.meas_basis, t)
                    /\ simultaneous(inst.prep_basis,
                                    conjugate(learning.cliff_layer, t))

\* a SINGLE instance added after a PAIR instance of the same measurement
\* basis contributed to a term whose conjugate its preparation does not hold
C30_Witness ==
    /\ learning.pc = "collect" /\ "added" \in DOMAIN learning
    /\ Len(learning.added) = 2
    /\ learning.instances[1].type = PAIR
    /\ learning.instances[2].type = SINGLE
    /\ learning.instances[1].meas_basis = learning.instances[2].meas_basis
    /\ \E t \in learning.added[2] :
          ~simultaneous(learning.instances[2].prep_basis,
                        conjugate(learning.cliff_layer, t))

\* ---- C24: for any list of requested expectation Paulis in any order,
\* after get_meas_bases every requested expectation is simultaneously
\* measurable in at least one of the resulting bases, and merging a later
\* expectation into a basis never breaks the coverage of an expectation
\* merged earlier.
C24_EveryExpectationCovered ==
    experiment.pc \in {"bases", "analyzed"} =>
        /\ \A j \in 1 .. (experiment.k - 1) :
              \E i \in DOMAIN experiment.meas_bases :
                 \A q \in 1 .. 2 :
                    \/ experiment.expectations[j][q] = "I"
                    \/ experiment.expectations[j][q] = experiment.meas_bases[i][q]
        /\ experiment.pc = "analyzed" =>
              experiment.data = Range(experiment.expectations)

\* three expectations of which the later two were merged into the basis of
\* the first
C24_Witness ==
    /\ experiment.pc = "analyzed"
    /\ Len(experiment.expectations) = 3
    /\ Len(experiment.meas_bases) = 1
    /\ experiment.meas_bases[1] # experiment.expectations[1]
    /\ experiment.expectations[2] # experiment.expectations[3]
    /\ experiment.expectations[3] # experiment.meas_bases[1]
    /\ ID(2) \notin Range(experiment.expectations)

\* ---- C25..C27: what the partition does to the instructions of the circuit
\* number of positions of s that hold x
Count(s, x) == Cardinality({k \in DOMAIN s : s[k] = x})

RECURSIVE Flatten(_)
\* the instructions of a list of layers, layer after layer, each layer as
\* single_layer followed by cliff_layer
Flatten(ls) ==
    IF ls = <<>> THEN <<>>
    ELSE Head(ls).single_layer \o Head(ls).cliff_layer \o Flatten(Tail(ls))

\* ---- C25: every non-measurement one- or two-qubit instruction of the
\* input circuit appears in exactly one of the returned layers, as often as
\* in the input: none is lost and none is duplicated, including one-qubit
\* gates that follow the last two-qubit gate.
C25_GatesConserved ==
    part_pc = "done" =>
        \A inst \in InstPool :
            (~ismeas(inst) /\ weight(inst) \in {1, 2}) =>
                Count(Flatten(layers), inst) = Count(qc, inst)

\* the partition of a circuit of one- and two-qubit gates returned after its
\* last sweep, which held only a one-qubit gate, was dropped with that gate
C25_Witness ==
    /\ part_pc = "done"
    /\ \A k \in DOMAIN qc : weight(qc[k]) \in {1, 2} /\ ~ismeas(qc[k])
    /\ Len(layers) = 1
    /\ newlayer # <<>> /\ newlayer[1].cliff_layer = <<>>
    /\ weight(qc[Len(qc)]) = 1
    /\ Count(Flatten(layers), qc[Len(qc)]) = 0

\* ---- C26: for every finite instruction list the partition terminates:
\* the first iteration of each sweep places the first remaining instruction
\* and removes it from the list, a sweep never ends with the list as long as
\* it began, and the method eventually returns.
C26_Terminates ==
    /\ [][(part_pc = "for" /\ todo = inst_list /\ circ = <<>>) =>
              (circ' = <<Head(inst_list)>> /\ inst_list' = Tail(inst_list))]_vars
    /\ [][(part_pc = "for" /\ part_pc' = "while") =>
              (circ # <<>> /\ Len(inst_list') < Len(inst_list) + Len(circ))]_vars
    /\ <>(part_pc = "done")

\* the method returned after three sweeps, each of which shortened the list
\* by one instruction
C26_Witness ==
    /\ part_pc = "done"
    /\ Len(NonMeas(qc)) = 3
    /\ Len(layers) = 3

\* ---- C27: for circuits of one- and two-qubit instructions the partition
\* keeps the program order on every qubit: an instruction is placed in a
\* sweep only when no earlier instruction sharing a qubit with it has been
\* left for a later sweep and no two-qubit gate sharing a qubit with it is
\* already in the layer, so that on every qubit the returned layers, each
\* run as single_layer then cliff_layer, apply the gates in input order.
OneOrTwoQubit == \A k \in DOMAIN qc : weight(qc[k]) \in {1, 2}

RECURSIVE OnQubit(_, _)
\* the instructions of s that act on qubit q, in order
OnQubit(s, q) ==
    IF s = <<>> THEN <<>>
    ELSE IF q \in support(Head(s))
         THEN <<Head(s)>> \o OnQubit(Tail(s), q)
         ELSE OnQubit(Tail(s), q)

IsPrefix(s, t) == Len(s) <= Len(t) /\ s = SubSeq(t, 1, Len(s))

C27_QubitOrderKept ==
    /\ [][(OneOrTwoQubit /\ part_pc = "for" /\ todo # <<>>
             /\ circ' = Append(circ, Head(todo))) =>
              /\ \A k \in DOMAIN LeftBehind :
                    support(LeftBehind[k]) \cap support(Head(todo)) = {}
              /\ TwoQubitSupport(circ) \cap support(Head(todo)) = {}]_vars
    /\ [][(OneOrTwoQubit /\ part_pc' = "done") =>
              \A q \in Qubits :
                 IsPrefix(OnQubit(Flatten(layers'), q),
                          OnQubit(NonMeas(qc'), q))]_vars

\* a one-qubit gate and a two-qubit gate behind it, both on a qubit blocked
\* in the first sweep, landed together in the second layer
C27_Witness ==
    /\ part_pc = "done" /\ OneOrTwoQubit
    /\ Len(layers) = 2
    /\ layers[2].single_layer # <<>>
    /\ layers[2].cliff_layer # <<>>
    /\ support(layers[2].single_layer[1]) \subseteq support(layers[2].cliff_layer[1])
    /\ support(layers[2].single_layer[1]) \subseteq support(layers[1].cliff_layer[1])

\* ---- C28: after any sequence of init_scaling and _init_tuning calls on a
\* NoiseModel, failing calls included, the stored probs and the stored
\* overhead are the ones computed from one and the same target map: a call
\* that raises leaves the model as it was, and before the first successful
\* call neither is stored.
TargetMap(nm) ==
    [t \in {nm.coeffs[k][1] : k \in DOMAIN nm.coeffs} |->
        nm.targets[CHOOSE k \in DOMAIN nm.coeffs : nm.coeffs[k][1] = t]]

C28_ProbsAndOverheadTogether ==
    /\ [](\A m \in DOMAIN models :
            IF models[m].inited
            THEN /\ models[m].probs = TuningProbs(models[m].coeffs, TargetMap(models[m]))
                 /\ models[m].overhead =
                       TuningOverhead(models[m].coeffs, TargetMap(models[m]), 1)
            ELSE models[m].probs = <<>> /\ models[m].overhead = 0)
    /\ [][(call'.op \in {"init_scaling", "_init_tuning"} /\ ~call'.ok) =>
              models' = models]_vars

\* a tuning call that lacked a target for a learned term failed on a model
\* that held a distribution with positive probabilities and an overhead
\* above 1 from an earlier call
C28_Witness ==
    /\ call.op = "_init_tuning" /\ ~call.ok
    /\ models[1].inited
    /\ models[1].overhead > 1
    /\ \E k \in DOMAIN models[1].probs : models[1].probs[k][2][1] > 0
    /\ Len(models[1].coeffs) = 2

\* ---- C29: after _single_bases, for every single-type pair {p,
\* conjugate(p)} of model terms there is a single basis b such that one
\* member of the pair is simultaneously measurable with b and the other with
\* conjugate(layer, b), and every basis is a product of pairwise
\* support-disjoint pair members.
PairCovered(gate, b, pair) ==
    \E p \in pair, q \in pair :
        /\ pair = {p, q}
        /\ simultaneous(b, p)
        /\ simultaneous(conjugate(gate, b), q)

DisjointProduct(members, b) ==
    \/ b \in members
    \/ \E p \in members, q \in members : separate(p, q) /\ b = Mul(p, q)

C29_EveryPairHasBasis ==
    learning.pc = "single_done" =>
        /\ \A pair \in learning.pairs_set :
              \E i \in DOMAIN learning.single_bases :
                 PairCovered(learning.cliff_layer, learning.single_bases[i], pair)
        /\ \A i \in DOMAIN learning.single_bases :
              DisjointProduct(UNION learning.pairs_set, learning.single_bases[i])

\* _single_bases returned after it had multiplied a basis by a pair member
\* on a qubit the basis already acted on: the basis left is no product of
\* support-disjoint pair members
C29_Witness ==
    /\ learning.pc = "single_done"
    /\ Len(learning.single_bases) < Cardinality(learning.pairs_set)
    /\ \E i \in DOMAIN learning.single_bases :
          ~DisjointProduct(UNION learning.pairs_set, learning.single_bases[i])

====
